---------------------------- MODULE Spec2Model ----------------------------
(***************************************************************************)
(* Operator templates of hedge (src/hedge/optemplate.py): the expression   *)
(* node model, its structural equality and hash, and the rewrite passes    *)
(* OperatorBinder, InverseMassContractor and BCToFluxRewriter.             *)
(*                                                                         *)
(* An expression node is a record whose field k is the name of the Python  *)
(* class of the node; the other fields are the constructor arguments.      *)
(* A Python number is the node Constant(val).  An exception is a value of  *)
(* the variable error; a pass that raised returns no tree.                 *)
(***************************************************************************)
EXTENDS Integers, Sequences, FiniteSets, TLC

VARIABLES
    pc,       \* position of the driver: which operation ran last
    expr,     \* the tree handed to the pass (or the left node of a comparison)
    other,    \* the right node of a comparison / the boundary-side expression
    result,   \* what the last operation returned
    prev,     \* what the operation before it returned
    error     \* the exception the last operation raised, NoError if none

vars == <<pc, expr, other, result, prev, error>>

(***************************************************************************)
(* Bounds of the model.                                                    *)
(***************************************************************************)
BinderMaxLeaves == 4    \* leaves of a raw template handed to OperatorBinder
ContractMaxSize == 3    \* operands plus bindings of a bound tree handed to
                        \* InverseMassContractor
MaxAxis == 1        \* coordinate axes are 0..MaxAxis

MaxRank == 1        \* remote ranks are 0..MaxRank
NestMaxDepth == 4       \* bindings stacked over one operand
CollectorMaxSize == 5   \* nodes of a tree handed to a collector
MaxRegistrations == 3   \* calls of IndexListRegistry.register
MaxIndexGroups == 3     \* index groups of a multirate split
MaxBoundaryNodes == 1   \* a boundary has 0..MaxBoundaryNodes nodes

Axes == 0..MaxAxis
Ranks == 0..MaxRank

\* boundary tags (hedge.mesh): the tag of all boundaries, a user tag and the
\* rank-boundary tag family
TAG_ALL == [t |-> "TAG_ALL"]
TAG_USER == [t |-> "inflow"]
TAG_RANK_BOUNDARY(rank) == [t |-> "TAG_RANK_BOUNDARY", rank |-> rank]
BoundaryTags == {TAG_ALL, TAG_USER} \cup {TAG_RANK_BOUNDARY(r) : r \in Ranks}

None == [k |-> "None"]
NoError == [k |-> "NoError"]

(***************************************************************************)
(* Node constructors.                                                      *)
(***************************************************************************)
Constant(c) == [k |-> "Constant", val |-> c]
Field(n) == [k |-> "Variable", name |-> n]
ScalarParameter(n) == [k |-> "ScalarParameter", name |-> n]
BoundaryNormalComponent(tag, axis) ==
    [k |-> "BoundaryNormalComponent", tag |-> tag, axis |-> axis]
Sum(ch) == [k |-> "Sum", children |-> ch]
Product(ch) == [k |-> "Product", children |-> ch]
ObjArray(ch) == [k |-> "ObjArray", children |-> ch]

MassOperator == [k |-> "MassOperator"]
InverseMassOperator == [k |-> "InverseMassOperator"]
ElementwiseMaxOperator == [k |-> "ElementwiseMaxOperator"]
DifferentiationOperator(a) == [k |-> "DifferentiationOperator", xyz_axis |-> a]
MInvSTOperator(a) == [k |-> "MInvSTOperator", xyz_axis |-> a]
StiffnessOperator(a) == [k |-> "StiffnessOperator", xyz_axis |-> a]
StiffnessTOperator(a) == [k |-> "StiffnessTOperator", xyz_axis |-> a]
BoundarizeOperator(tag) == [k |-> "BoundarizeOperator", tag |-> tag]
FluxExchangeOperator(idx, rank) ==
    [k |-> "FluxExchangeOperator", index |-> idx, rank |-> rank]
FluxOperator(flux) == [k |-> "FluxOperator", flux |-> flux]
LiftingFluxOperator(flux) == [k |-> "LiftingFluxOperator", flux |-> flux]

\* leaves of the flux language (hedge.flux)
FieldComponent(index, is_interior) ==
    [k |-> "FieldComponent", index |-> index, is_interior |-> is_interior]
Normal(axis) == [k |-> "Normal", axis |-> axis]

OperatorBinding(op, field) ==
    [k |-> "OperatorBinding", op |-> op, field |-> field]
BoundaryPair(field, bfield, tag) ==
    [k |-> "BoundaryPair", field |-> field, bfield |-> bfield, tag |-> tag]

(***************************************************************************)
(* The class hierarchy, as isinstance sees it.                             *)
(***************************************************************************)
StatelessOperatorClasses ==
    {"MassOperator", "InverseMassOperator", "ElementwiseMaxOperator"}
DiffOperatorBaseClasses ==
    {"DifferentiationOperator", "MInvSTOperator", "StiffnessOperator",
     "StiffnessTOperator"}
FluxOperatorBaseClasses == {"FluxOperator", "LiftingFluxOperator"}
OperatorClasses ==
    StatelessOperatorClasses \cup DiffOperatorBaseClasses
        \cup FluxOperatorBaseClasses
        \cup {"BoundarizeOperator", "FluxExchangeOperator"}

IsOperator(e) == e.k \in OperatorClasses
IsConstant(e) == e.k = "Constant"

(***************************************************************************)
(* pymbolic's arithmetic on expressions, which the passes call.            *)
(***************************************************************************)
RECURSIVE is_zero(_)
is_zero(e) ==
    CASE e.k = "Constant" -> e.val = 0
      [] e.k = "Sum" -> Len(e.children) = 1 /\ is_zero(e.children[1])
      [] e.k = "Product" ->
            \E i \in 1..Len(e.children) : is_zero(e.children[i])
      [] OTHER -> FALSE

is_one(e) == e.k = "Constant" /\ e.val = 1

\* first * second, by Python's dispatch on __mul__ / __rmul__
Mul(first, second) ==
    IF IsConstant(first) /\ IsConstant(second)
    THEN Constant(first.val * second.val)
    ELSE IF IsConstant(first)
    THEN IF second.k = "Product"
         THEN IF is_zero(first) THEN Constant(0)
              ELSE IF is_one(first) THEN second
              ELSE Product(<<first>> \o second.children)
         ELSE IF is_one(first) THEN second
              ELSE IF is_zero(first) THEN Constant(0)
              ELSE Product(<<first, second>>)
    ELSE IF first.k = "Product"
    THEN IF second.k = "Product"
         THEN Product(first.children \o second.children)
         ELSE IF is_zero(second) THEN Constant(0)
         ELSE IF is_one(second) THEN first
         ELSE Product(first.children \o <<second>>)
    ELSE IF is_one(second) THEN first
         ELSE IF is_zero(second) THEN Constant(0)
         ELSE Product(<<first, second>>)

\* the work list of flattened_product / flattened_sum: the head is popped,
\* the children of a nested node of the same kind are put at the end
RECURSIVE FlattenProductQueue(_, _)
FlattenProductQueue(queue, done) ==
    IF queue = <<>> THEN [zero |-> FALSE, done |-> done]
    ELSE LET item == Head(queue)
         IN  IF is_zero(item) THEN [zero |-> TRUE, done |-> <<>>]
             ELSE IF is_one(item) THEN FlattenProductQueue(Tail(queue), done)
             ELSE IF item.k = "Product"
             THEN FlattenProductQueue(Tail(queue) \o item.children, done)
             ELSE FlattenProductQueue(Tail(queue), Append(done, item))

flattened_product(components) ==
    LET r == FlattenProductQueue(components, <<>>)
    IN  IF r.zero THEN Constant(0)
        ELSE IF Len(r.done) = 0 THEN Constant(1)
        ELSE IF Len(r.done) = 1 THEN r.done[1]
        ELSE Product(r.done)

RECURSIVE FlattenSumQueue(_, _)
FlattenSumQueue(queue, done) ==
    IF queue = <<>> THEN done
    ELSE LET item == Head(queue)
         IN  IF is_zero(item) THEN FlattenSumQueue(Tail(queue), done)
             ELSE IF item.k = "Sum"
             THEN FlattenSumQueue(Tail(queue) \o item.children, done)
             ELSE FlattenSumQueue(Tail(queue), Append(done, item))

flattened_sum(components) ==
    LET done == FlattenSumQueue(components, <<>>)
    IN  IF Len(done) = 0 THEN Constant(0)
        ELSE IF Len(done) = 1 THEN done[1]
        ELSE Sum(done)

(***************************************************************************)
(* Structural equality and hash of the node classes.  A Python hash of a   *)
(* tuple is kept as the record of the hashes of its items, so two hashes   *)
(* are equal here exactly when Python computes them from equal items.      *)
(***************************************************************************)
RECURSIVE get_hash(_)
RECURSIVE is_equal(_, _)
RECURSIVE PyEq(_, _)

\* pymbolic Expression.__eq__ for nodes, value equality for numbers
PyEq(a, b) == get_hash(a) = get_hash(b) /\ is_equal(a, b)

is_obj_array(f) == f.k = "ObjArray"

field_equal(a, b) ==
    IF is_obj_array(a)
    THEN /\ is_obj_array(b)
         /\ Len(a.children) = Len(b.children)
         /\ \A i \in 1..Len(a.children) : PyEq(a.children[i], b.children[i])
    ELSE ~is_obj_array(b) /\ PyEq(a, b)

hashable_field(f) ==
    IF is_obj_array(f)
    THEN [cls |-> "tuple",
          items |-> [i \in 1..Len(f.children) |-> get_hash(f.children[i])]]
    ELSE get_hash(f)

Expression_get_hash(self) == self
Expression_is_equal(self, o) == o.k = self.k /\ o = self

BoundaryNormalComponent_get_hash(self) ==
    [cls |-> self.k, tag |-> self.tag, axis |-> self.axis]
BoundaryNormalComponent_is_equal(self, o) ==
    o.k = self.k /\ o.tag = self.tag /\ o.axis = self.axis

StatelessOperator_get_hash(self) == [cls |-> self.k]
StatelessOperator_is_equal(self, o) == o.k = self.k

DiffOperatorBase_get_hash(self) == [cls |-> self.k, xyz_axis |-> self.xyz_axis]
DiffOperatorBase_is_equal(self, o) ==
    o.k = self.k /\ o.xyz_axis = self.xyz_axis

BoundarizeOperator_get_hash(self) == [cls |-> self.k, tag |-> self.tag]
BoundarizeOperator_is_equal(self, o) == o.k = self.k /\ o.tag = self.tag

FluxExchangeOperator_get_hash(self) ==
    [cls |-> self.k, index |-> self.index, rank |-> self.rank]
FluxExchangeOperator_is_equal(self, o) ==
    o.k = self.k /\ o.index = self.index /\ o.rank = self.rank

FluxOperatorBase_get_hash(self) == [cls |-> self.k, flux |-> self.flux]
\* a slip: isinstance(other, FluxOperatorBase) in place of the class comparison
FluxOperatorBase_is_equal_isinstance(self, o) ==
    o.k \in FluxOperatorBaseClasses /\ self.flux = o.flux
FluxOperatorBase_is_equal(self, o) == self.k = o.k /\ self.flux = o.flux

OperatorBinding_get_hash(self) ==
    [cls |-> self.k, op |-> get_hash(self.op),
     field |-> hashable_field(self.field)]
OperatorBinding_is_equal(self, o) ==
    o.k = self.k /\ PyEq(o.op, self.op) /\ field_equal(o.field, self.field)

BoundaryPair_get_hash(self) ==
    [cls |-> self.k, field |-> hashable_field(self.field),
     bfield |-> hashable_field(self.bfield), tag |-> self.tag]
\* a slip: the tag is left out of the comparison
BoundaryPair_is_equal_no_tag(self, o) ==
    /\ self.k = o.k
    /\ field_equal(o.field, self.field)
    /\ field_equal(o.bfield, self.bfield)
BoundaryPair_is_equal(self, o) ==
    /\ self.k = o.k
    /\ field_equal(o.field, self.field)
    /\ field_equal(o.bfield, self.bfield)
    /\ o.tag = self.tag

get_hash(self) ==
    CASE self.k = "BoundaryNormalComponent" ->
            BoundaryNormalComponent_get_hash(self)
      [] self.k \in StatelessOperatorClasses -> StatelessOperator_get_hash(self)
      [] self.k \in DiffOperatorBaseClasses -> DiffOperatorBase_get_hash(self)
      [] self.k = "BoundarizeOperator" -> BoundarizeOperator_get_hash(self)
      [] self.k = "FluxExchangeOperator" -> FluxExchangeOperator_get_hash(self)
      [] self.k \in FluxOperatorBaseClasses -> FluxOperatorBase_get_hash(self)
      [] self.k = "OperatorBinding" -> OperatorBinding_get_hash(self)
      [] self.k = "BoundaryPair" -> BoundaryPair_get_hash(self)
      [] OTHER -> Expression_get_hash(self)

is_equal(self, o) ==
    CASE self.k = "BoundaryNormalComponent" ->
            BoundaryNormalComponent_is_equal(self, o)
      [] self.k \in StatelessOperatorClasses ->
            StatelessOperator_is_equal(self, o)
      [] self.k \in DiffOperatorBaseClasses -> DiffOperatorBase_is_equal(self, o)
      [] self.k = "BoundarizeOperator" -> BoundarizeOperator_is_equal(self, o)
      [] self.k = "FluxExchangeOperator" ->
            FluxExchangeOperator_is_equal(self, o)
      [] self.k \in FluxOperatorBaseClasses -> FluxOperatorBase_is_equal(self, o)
      [] self.k = "OperatorBinding" -> OperatorBinding_is_equal(self, o)
      [] self.k = "BoundaryPair" -> BoundaryPair_is_equal(self, o)
      [] OTHER -> Expression_is_equal(self, o)


(***************************************************************************)
(* The mappers.  Rec(m, e) is self.rec(e) of the mapper instance m, a       *)
(* record of its class cls and its attributes: the method the class of e   *)
(* selects, looked up in the class of m.                                   *)
(***************************************************************************)
RECURSIVE Rec(_, _)

\* pymbolic's IdentityMapper
IdentityMapper_map_sum(m, e) ==
    flattened_sum([i \in 1..Len(e.children) |-> Rec(m, e.children[i])])

IdentityMapper_map_product(m, e) ==
    flattened_product([i \in 1..Len(e.children) |-> Rec(m, e.children[i])])

IdentityMapper_map_numpy_array(m, e) ==
    ObjArray([i \in 1..Len(e.children) |-> Rec(m, e.children[i])])

IdentityMapperMixin_map_operator_binding(m, e) ==
    OperatorBinding(Rec(m, e.op), Rec(m, e.field))

IdentityMapperMixin_map_boundary_pair(m, e) ==
    BoundaryPair(Rec(m, e.field), Rec(m, e.bfield), e.tag)

\* it's a leaf--no changing children
IdentityMapperMixin_map_mass_base(m, e) == e

(***************************************************************************)
(* OperatorBinder.                                                         *)
(***************************************************************************)
OperatorBinder_map_product(m, e) ==
    IF Len(e.children) = 0 THEN e
    ELSE LET first == e.children[1]
         IN  IF IsOperator(first)
             THEN OperatorBinding(first,
                                  Rec(m, flattened_product(Tail(e.children))))
             ELSE Mul(first, Rec(m, flattened_product(Tail(e.children))))

(***************************************************************************)
(* InverseMassContractor and the mapper it applies to the operand of an    *)
(* InverseMass binding.                                                    *)
(***************************************************************************)
Inner_map_constant(m, e) == OperatorBinding(InverseMassOperator, e)

Inner_map_algebraic_leaf(m, e) == OperatorBinding(InverseMassOperator, e)

\* a slip: the Mass binding is returned instead of its operand, and the
\* fused operators of Stiffness and StiffnessT are swapped
Inner_map_operator_binding_wrong_rules(m, binding) ==
    IF binding.op.k = "MassOperator" THEN binding
    ELSE IF binding.op.k = "StiffnessOperator"
    THEN OperatorBinding(MInvSTOperator(binding.op.xyz_axis), binding.field)
    ELSE IF binding.op.k = "StiffnessTOperator"
    THEN OperatorBinding(DifferentiationOperator(binding.op.xyz_axis),
                         binding.field)
    ELSE IF binding.op.k = "FluxOperator"
    THEN OperatorBinding(FluxOperator(binding.op.flux), binding.field)
    ELSE OperatorBinding(InverseMassOperator, binding)

Inner_map_operator_binding(m, binding) ==
    IF binding.op.k = "MassOperator" THEN binding.field
    ELSE IF binding.op.k = "StiffnessOperator"
    THEN OperatorBinding(DifferentiationOperator(binding.op.xyz_axis),
                         binding.field)
    ELSE IF binding.op.k = "StiffnessTOperator"
    THEN OperatorBinding(MInvSTOperator(binding.op.xyz_axis), binding.field)
    ELSE IF binding.op.k = "FluxOperator"
    THEN OperatorBinding(LiftingFluxOperator(binding.op.flux), binding.field)
    ELSE OperatorBinding(InverseMassOperator, binding)

Inner_map_sum(m, e) ==
    Sum([i \in 1..Len(e.children) |-> Rec(m, e.children[i])])

is_scalar(e) == IsConstant(e)

\* a slip: the scalar factors are handed to the mapper like the others
Inner_map_product_all_mapped(m, e) ==
    LET nonscalar_count ==
            Cardinality({i \in 1..Len(e.children) : ~is_scalar(e.children[i])})
        do_map(ch) == Rec(m, ch)
    IN  IF nonscalar_count > 1
        THEN e
        ELSE Product([i \in 1..Len(e.children) |-> do_map(e.children[i])])

Inner_map_product(m, e) ==
    LET nonscalar_count ==
            Cardinality({i \in 1..Len(e.children) : ~is_scalar(e.children[i])})
        do_map(ch) == IF is_scalar(ch) THEN ch ELSE Rec(m, ch)
    IN  IF nonscalar_count > 1
        THEN e      \* too complicated, don't touch it
        ELSE Product([i \in 1..Len(e.children) |-> do_map(e.children[i])])

InverseMassContractor_map_boundary_pair(m, bp) ==
    BoundaryPair(Rec(m, bp.field), Rec(m, bp.bfield), bp.tag)

InverseMassContractor_map_operator_binding(m, binding) ==
    \* we only care about bindings of inverse mass operators
    IF binding.op.k # "InverseMassOperator"
    THEN OperatorBinding(binding.op, Rec(m, binding.field))
    ELSE Rec([cls |-> "_InnerInverseMassContractor"], binding.field)

(***************************************************************************)
(* DependencyMapper: the set of the variables, scalar parameters and (for  *)
(* include_operator_bindings) operator bindings an expression refers to.   *)
(***************************************************************************)
RECURSIVE DependencyMapper(_, _)
DependencyMapper(include_operator_bindings, e) ==
    CASE e.k = "Variable" -> {e}
      [] e.k = "ScalarParameter" -> {e}
      [] e.k = "OperatorBinding" ->
            IF include_operator_bindings THEN {e}
            ELSE DependencyMapper(include_operator_bindings, e.op)
                 \cup DependencyMapper(include_operator_bindings, e.field)
      [] e.k = "BoundaryPair" ->
            DependencyMapper(include_operator_bindings, e.field)
            \cup DependencyMapper(include_operator_bindings, e.bfield)
      [] IsOperator(e) -> {}
      [] e.k = "BoundaryNormalComponent" -> {}
      [] e.k \in {"Sum", "Product", "ObjArray"} ->
            UNION {DependencyMapper(include_operator_bindings, e.children[i]) :
                   i \in 1..Len(e.children)}
      [] OTHER -> {}

(***************************************************************************)
(* BCToFluxRewriter.  A raised RuntimeError is a record: what says which   *)
(* of the raise statements it comes from, the other fields are the values  *)
(* formatted into its message.                                             *)
(***************************************************************************)
CollisionError(symbols) ==
    [k |-> "RuntimeError", what |-> "namespace collision",
     symbols |-> symbols]
TagError(cls, node_tag, pair_tag) ==
    [k |-> "RuntimeError", what |-> "tag mismatch", node |-> cls,
     tags |-> <<node_tag, pair_tag>>]
BoundaryOperatorError(op) ==
    [k |-> "RuntimeError", what |-> "operator on boundary data", op |-> op]

\* a Python dict from expressions to list positions (0-based)
EmptyDict == [x \in {} |-> 0]
DictSet(d, key, val) ==
    [x \in (DOMAIN d) \cup {key} |-> IF x = key THEN val ELSE d[x]]
RECURSIVE DictOfList(_, _)
DictOfList(list, n) ==
    IF n = 0 THEN EmptyDict
    ELSE DictSet(DictOfList(list, n - 1), list[n], n - 1)

\* MaxBoundaryFluxEvaluableExpressionFinder.__init__; bpair is the variable
\* of the enclosing method the miner's methods read
MaxBoundaryFluxEvaluableExpressionFinder(vol_expr_list, bpair) ==
    [vol_expr_list |-> vol_expr_list,
     vol_expr_to_idx |-> DictOfList(vol_expr_list, Len(vol_expr_list)),
     bdry_expr_list |-> <<>>,
     bdry_expr_to_idx |-> EmptyDict,
     bpair |-> bpair]

\* what a method of the miner leaves behind: the miner, the value returned
\* and the exception raised
Returns(self, val) == [self |-> self, val |-> val, err |-> NoError]
Raises(self, err) == [self |-> self, val |-> None, err |-> err]

register_boundary_expr(self, e) ==
    IF e \in DOMAIN self.bdry_expr_to_idx
    THEN Returns(self, self.bdry_expr_to_idx[e])
    ELSE LET idx == Cardinality(DOMAIN self.bdry_expr_to_idx)
         IN  Returns([self EXCEPT
                        !.bdry_expr_to_idx = DictSet(@, e, idx),
                        !.bdry_expr_list = Append(@, e)], idx)

\* a slip: a new volume expression is put at the head of the list
register_volume_expr_at_head(self, e) ==
    IF e \in DOMAIN self.vol_expr_to_idx
    THEN Returns(self, self.vol_expr_to_idx[e])
    ELSE LET idx == Cardinality(DOMAIN self.vol_expr_to_idx)
         IN  Returns([self EXCEPT
                        !.vol_expr_to_idx = DictSet(@, e, idx),
                        !.vol_expr_list = <<e>> \o @], idx)

register_volume_expr(self, e) ==
    IF e \in DOMAIN self.vol_expr_to_idx
    THEN Returns(self, self.vol_expr_to_idx[e])
    ELSE LET idx == Cardinality(DOMAIN self.vol_expr_to_idx)
         IN  Returns([self EXCEPT
                        !.vol_expr_to_idx = DictSet(@, e, idx),
                        !.vol_expr_list = Append(@, e)], idx)

Finder_map_normal_component(self, e) ==
    IF e.tag # self.bpair.tag
    THEN Raises(self, TagError("BoundaryNormalComponent", e.tag,
                               self.bpair.tag))
    ELSE Returns(self, Normal(e.axis))

Finder_map_variable(self, e) ==
    LET r == register_boundary_expr(self, e)
    IN  Returns(r.self, FieldComponent(r.val, FALSE))

\* a slip: a Boundarize binding is registered as a boundary-side input
Finder_map_operator_binding_trace_as_boundary(self, e) ==
    IF e.op.k = "BoundarizeOperator"
    THEN IF e.op.tag # self.bpair.tag
         THEN Raises(self, TagError("BoundarizeOperator", e.op.tag,
                                    self.bpair.tag))
         ELSE LET r == register_boundary_expr(self, e)
              IN  Returns(r.self, FieldComponent(r.val, FALSE))
    ELSE IF e.op.k = "FluxExchangeOperator"
    THEN LET op_tag == TAG_RANK_BOUNDARY(e.op.rank)
         IN  IF self.bpair.tag # op_tag
             THEN Raises(self, TagError("FluxExchangeOperator", op_tag,
                                        self.bpair.tag))
             ELSE LET r == register_boundary_expr(self, e)
                  IN  Returns(r.self, FieldComponent(r.val, FALSE))
    ELSE Raises(self, BoundaryOperatorError(e.op))

\* a slip: a binding of any other operator is taken as a boundary-side input
Finder_map_operator_binding_any_operator(self, e) ==
    IF e.op.k = "BoundarizeOperator"
    THEN IF e.op.tag # self.bpair.tag
         THEN Raises(self, TagError("BoundarizeOperator", e.op.tag,
                                    self.bpair.tag))
         ELSE LET r == register_volume_expr(self, e.field)
              IN  Returns(r.self, FieldComponent(r.val, TRUE))
    ELSE IF e.op.k = "FluxExchangeOperator"
            /\ self.bpair.tag # TAG_RANK_BOUNDARY(e.op.rank)
    THEN Raises(self, TagError("FluxExchangeOperator",
                               TAG_RANK_BOUNDARY(e.op.rank), self.bpair.tag))
    ELSE LET r == register_boundary_expr(self, e)
         IN  Returns(r.self, FieldComponent(r.val, FALSE))

Finder_map_operator_binding(self, e) ==
    IF e.op.k = "BoundarizeOperator"
    THEN IF e.op.tag # self.bpair.tag
         THEN Raises(self, TagError("BoundarizeOperator", e.op.tag,
                                    self.bpair.tag))
         ELSE LET r == register_volume_expr(self, e.field)
              IN  Returns(r.self, FieldComponent(r.val, TRUE))
    ELSE IF e.op.k = "FluxExchangeOperator"
    THEN LET op_tag == TAG_RANK_BOUNDARY(e.op.rank)
         IN  IF self.bpair.tag # op_tag
             THEN Raises(self, TagError("FluxExchangeOperator", op_tag,
                                        self.bpair.tag))
             ELSE LET r == register_boundary_expr(self, e)
                  IN  Returns(r.self, FieldComponent(r.val, FALSE))
    ELSE Raises(self, BoundaryOperatorError(e.op))

\* self.rec of the miner: its own methods, else those of IdentityMapper; the
\* children of a sum, product or array are mapped from left to right, and
\* an exception ends the traversal
RECURSIVE Finder_rec(_, _)
RECURSIVE Finder_rec_children(_, _, _)
Finder_rec_children(self, children, done) ==
    IF children = <<>> THEN Returns(self, done)
    ELSE LET r == Finder_rec(self, Head(children))
         IN  IF r.err # NoError THEN r
             ELSE Finder_rec_children(r.self, Tail(children),
                                      Append(done, r.val))

Finder_rec(self, e) ==
    CASE e.k = "BoundaryNormalComponent" ->
            Finder_map_normal_component(self, e)
      [] e.k = "Variable" -> Finder_map_variable(self, e)
      [] e.k = "OperatorBinding" -> Finder_map_operator_binding(self, e)
      [] e.k \in {"Sum", "Product", "ObjArray"} ->
            LET r == Finder_rec_children(self, e.children, <<>>)
            IN  IF r.err # NoError THEN r
                ELSE IF e.k = "Sum"
                THEN Returns(r.self, flattened_sum(r.val))
                ELSE IF e.k = "Product"
                THEN Returns(r.self, flattened_product(r.val))
                ELSE Returns(r.self, ObjArray(r.val))
      [] e.k = "BoundaryPair" ->
            LET r == Finder_rec_children(self, <<e.field, e.bfield>>, <<>>)
            IN  IF r.err # NoError THEN r
                ELSE Returns(r.self, BoundaryPair(r.val[1], r.val[2], e.tag))
      [] OTHER -> Returns(self, e)

\* hedge.tools.is_zero: a number equal to 0
tools_is_zero(x) == IsConstant(x) /\ x.val = 0

\* a slip: the interior field components are substituted as well
sub_bdry_into_flux_every_component(e, bdry_field, new_bdry_field) ==
    IF e.k = "FieldComponent"
    THEN IF e.index = 0 /\ ~is_obj_array(bdry_field)
         THEN new_bdry_field
         ELSE new_bdry_field.children[e.index + 1]
    ELSE None

sub_bdry_into_flux(e, bdry_field, new_bdry_field) ==
    IF e.k = "FieldComponent" /\ ~e.is_interior
    THEN IF e.index = 0 /\ ~is_obj_array(bdry_field)
         THEN new_bdry_field
         ELSE new_bdry_field.children[e.index + 1]
    ELSE None

\* hedge.flux.FluxSubstitutionMapper(sub_bdry_into_flux)(flux)
RECURSIVE FluxSubstitutionMapper(_, _, _)
FluxSubstitutionMapper(flux, bdry_field, new_bdry_field) ==
    CASE flux.k \in {"FieldComponent", "Normal"} ->
            LET r == sub_bdry_into_flux(flux, bdry_field, new_bdry_field)
            IN  IF r # None THEN r ELSE flux
      [] flux.k = "Sum" ->
            flattened_sum([i \in 1..Len(flux.children) |->
                FluxSubstitutionMapper(flux.children[i], bdry_field,
                                       new_bdry_field)])
      [] flux.k = "Product" ->
            flattened_product([i \in 1..Len(flux.children) |->
                FluxSubstitutionMapper(flux.children[i], bdry_field,
                                       new_bdry_field)])
      [] OTHER -> flux

IsFluxOverBoundaryPair(e) ==
    e.k = "OperatorBinding" /\ e.op.k = "FluxOperator"
        /\ e.field.k = "BoundaryPair"

\* the boundary side is mined before the dependencies of the two sides are
\* compared
BCToFluxRewriter_flux_binding_mine_first(e) ==
    LET bpair == e.field
        vol_field == bpair.field
        bdry_field == bpair.bfield
        flux == e.op.flux
        bdry_dependencies == DependencyMapper(TRUE, bdry_field)
        vol_dependencies == DependencyMapper(TRUE, vol_field)
        vol_bdry_intersection == bdry_dependencies \cap vol_dependencies
        mbfeef == MaxBoundaryFluxEvaluableExpressionFinder(
            IF is_obj_array(vol_field) THEN vol_field.children
            ELSE <<vol_field>>, bpair)
        mined == Finder_rec(mbfeef, bdry_field)
        new_bdry_field == mined.val
        new_flux == FluxSubstitutionMapper(flux, bdry_field, new_bdry_field)
    IN  IF mined.err # NoError
        THEN [val |-> None, err |-> mined.err]
        ELSE IF vol_bdry_intersection # {}
        THEN [val |-> None, err |-> CollisionError(vol_bdry_intersection)]
        ELSE IF tools_is_zero(new_flux)
        THEN [val |-> Constant(0), err |-> NoError]
        ELSE [val |-> OperatorBinding(
                        FluxOperator(new_flux),
                        BoundaryPair(ObjArray(mined.self.vol_expr_list),
                                     ObjArray(mined.self.bdry_expr_list),
                                     bpair.tag)),
              err |-> NoError]

\* a slip: a flux that became 0 is bound like any other
BCToFluxRewriter_flux_binding_keep_zero(e) ==
    LET bpair == e.field
        vol_field == bpair.field
        bdry_field == bpair.bfield
        flux == e.op.flux
        bdry_dependencies == DependencyMapper(TRUE, bdry_field)
        vol_dependencies == DependencyMapper(TRUE, vol_field)
        vol_bdry_intersection == bdry_dependencies \cap vol_dependencies
        mbfeef == MaxBoundaryFluxEvaluableExpressionFinder(
            IF is_obj_array(vol_field) THEN vol_field.children
            ELSE <<vol_field>>, bpair)
        mined == Finder_rec(mbfeef, bdry_field)
        new_bdry_field == mined.val
        new_flux == FluxSubstitutionMapper(flux, bdry_field, new_bdry_field)
    IN  IF vol_bdry_intersection # {}
        THEN [val |-> None, err |-> CollisionError(vol_bdry_intersection)]
        ELSE IF mined.err # NoError
        THEN [val |-> None, err |-> mined.err]
        ELSE [val |-> OperatorBinding(
                        FluxOperator(new_flux),
                        BoundaryPair(ObjArray(mined.self.vol_expr_list),
                                     ObjArray(mined.self.bdry_expr_list),
                                     bpair.tag)),
              err |-> NoError]

\* BCToFluxRewriter.map_operator_binding for a FluxOperator bound to a
\* BoundaryPair: the value returned and the exception raised
BCToFluxRewriter_flux_binding(e) ==
    LET bpair == e.field
        vol_field == bpair.field
        bdry_field == bpair.bfield
        flux == e.op.flux
        bdry_dependencies == DependencyMapper(TRUE, bdry_field)
        vol_dependencies == DependencyMapper(TRUE, vol_field)
        vol_bdry_intersection == bdry_dependencies \cap vol_dependencies
        mbfeef == MaxBoundaryFluxEvaluableExpressionFinder(
            IF is_obj_array(vol_field) THEN vol_field.children
            ELSE <<vol_field>>, bpair)
        mined == Finder_rec(mbfeef, bdry_field)
        new_bdry_field == mined.val
        new_flux == FluxSubstitutionMapper(flux, bdry_field, new_bdry_field)
    IN  IF vol_bdry_intersection # {}
        THEN [val |-> None, err |-> CollisionError(vol_bdry_intersection)]
        ELSE IF mined.err # NoError
        THEN [val |-> None, err |-> mined.err]
        ELSE IF tools_is_zero(new_flux)
        THEN [val |-> Constant(0), err |-> NoError]
        ELSE [val |-> OperatorBinding(
                        FluxOperator(new_flux),
                        BoundaryPair(ObjArray(mined.self.vol_expr_list),
                                     ObjArray(mined.self.bdry_expr_list),
                                     bpair.tag)),
              err |-> NoError]

BCToFluxRewriter_map_operator_binding(m, e) ==
    IF ~IsFluxOverBoundaryPair(e)
    THEN IdentityMapperMixin_map_operator_binding(m, e)
    ELSE BCToFluxRewriter_flux_binding(e).val

(***************************************************************************)
(* EmptyFluxKiller.  discr.nodes[tag] is                                   *)
(* len(discr.get_boundary(tag).nodes).                                     *)
(***************************************************************************)
\* a slip: only FluxOperator is tested for
EmptyFluxKiller_map_operator_binding_flux_only(m, e) ==
    IF /\ e.op.k = "FluxOperator"
       /\ e.field.k = "BoundaryPair"
       /\ m.discr.nodes[e.field.tag] = 0
    THEN Constant(0)
    ELSE IdentityMapperMixin_map_operator_binding(m, e)

\* a slip: the dead binding is returned as it is
EmptyFluxKiller_map_operator_binding_keep(m, e) ==
    IF /\ e.op.k \in FluxOperatorBaseClasses
       /\ e.field.k = "BoundaryPair"
       /\ m.discr.nodes[e.field.tag] = 0
    THEN e
    ELSE IdentityMapperMixin_map_operator_binding(m, e)

EmptyFluxKiller_map_operator_binding(m, e) ==
    IF /\ e.op.k \in FluxOperatorBaseClasses
       /\ e.field.k = "BoundaryPair"
       /\ m.discr.nodes[e.field.tag] = 0
    THEN Constant(0)
    ELSE IdentityMapperMixin_map_operator_binding(m, e)

IdentityMapper_dispatch(m, e) ==
    CASE e.k = "Sum" -> IdentityMapper_map_sum(m, e)
      [] e.k = "Product" -> IdentityMapper_map_product(m, e)
      [] e.k = "ObjArray" -> IdentityMapper_map_numpy_array(m, e)
      [] e.k = "OperatorBinding" ->
            IdentityMapperMixin_map_operator_binding(m, e)
      [] e.k = "BoundaryPair" -> IdentityMapperMixin_map_boundary_pair(m, e)
      [] IsOperator(e) -> IdentityMapperMixin_map_mass_base(m, e)
      [] e.k = "BoundaryNormalComponent" ->
            IdentityMapperMixin_map_mass_base(m, e)
      [] OTHER -> e

\* the methods of _InnerInverseMassContractor, a pymbolic RecursiveMapper: it
\* has no method for the other node classes
Inner_dispatch(m, e) ==
    CASE e.k = "Constant" -> Inner_map_constant(m, e)
      [] e.k = "Variable" -> Inner_map_algebraic_leaf(m, e)
      [] e.k = "OperatorBinding" -> Inner_map_operator_binding(m, e)
      [] e.k = "Sum" -> Inner_map_sum(m, e)
      [] e.k = "Product" -> Inner_map_product(m, e)

Rec(m, e) ==
    CASE m.cls = "OperatorBinder" /\ e.k = "Product" ->
            OperatorBinder_map_product(m, e)
      [] m.cls = "InverseMassContractor" /\ e.k = "OperatorBinding" ->
            InverseMassContractor_map_operator_binding(m, e)
      [] m.cls = "InverseMassContractor" /\ e.k = "BoundaryPair" ->
            InverseMassContractor_map_boundary_pair(m, e)
      [] m.cls = "_InnerInverseMassContractor" -> Inner_dispatch(m, e)
      [] m.cls = "BCToFluxRewriter" /\ e.k = "OperatorBinding" ->
            BCToFluxRewriter_map_operator_binding(m, e)
      [] m.cls = "EmptyFluxKiller" /\ e.k = "OperatorBinding" ->
            EmptyFluxKiller_map_operator_binding(m, e)
      [] OTHER -> IdentityMapper_dispatch(m, e)

OperatorBinder(e) == Rec([cls |-> "OperatorBinder"], e)

InverseMassContractor(e) == Rec([cls |-> "InverseMassContractor"], e)

\* EmptyFluxKiller(discr)(e)
EmptyFluxKiller(discr, e) ==
    Rec([cls |-> "EmptyFluxKiller", discr |-> discr], e)

\* the exception that ends BCToFluxRewriter()(e): the first one raised in
\* the order the rewriter visits the nodes, NoError if it returns
RECURSIVE BCToFluxRewriter_raises(_)
RECURSIVE FirstRaised(_)
FirstRaised(nodes) ==
    IF nodes = <<>> THEN NoError
    ELSE LET err == BCToFluxRewriter_raises(Head(nodes))
         IN  IF err # NoError THEN err ELSE FirstRaised(Tail(nodes))

BCToFluxRewriter_raises(e) ==
    CASE IsFluxOverBoundaryPair(e) -> BCToFluxRewriter_flux_binding(e).err
      [] e.k = "OperatorBinding" -> FirstRaised(<<e.op, e.field>>)
      [] e.k = "BoundaryPair" -> FirstRaised(<<e.field, e.bfield>>)
      [] e.k \in {"Sum", "Product", "ObjArray"} -> FirstRaised(e.children)
      [] OTHER -> NoError

BCToFluxRewriter(e) == Rec([cls |-> "BCToFluxRewriter"], e)


(***************************************************************************)
(* Raw templates: every nesting of sums, products and bindings over a few  *)
(* leaves, constructed node by node, with at most BinderMaxLeaves leaves.        *)
(***************************************************************************)
BinderLeaves ==
    {Field("u"), Field("v"), Constant(2), MassOperator}

RECURSIVE RawTemplates(_)
RECURSIVE RawForests(_, _)
RawForests(n, minlen) ==
    IF n = 0 THEN (IF minlen <= 0 THEN {<<>>} ELSE {})
    ELSE UNION {{<<t>> \o f : t \in RawTemplates(j),
                              f \in RawForests(n - j, minlen - 1)}
                : j \in 1..(IF minlen > 1 THEN n - (minlen - 1) ELSE n)}

RawTemplates(n) ==
    IF n = 1 THEN BinderLeaves
    ELSE {Sum(f) : f \in RawForests(n, 2)}
         \cup {Product(f) : f \in RawForests(n, 2)}

\* is some operator still an implicit factor: a factor of a product that is
\* followed by further factors
RECURSIVE HasUnboundOperator(_)
HasUnboundOperator(e) ==
    CASE e.k \in {"Sum", "ObjArray"} ->
            \E i \in 1..Len(e.children) : HasUnboundOperator(e.children[i])
      [] e.k = "Product" ->
            \/ \E i \in 1..Len(e.children) : HasUnboundOperator(e.children[i])
            \/ \E i \in 1..(Len(e.children) - 1) : IsOperator(e.children[i])
      [] e.k = "OperatorBinding" -> HasUnboundOperator(e.field)
      [] e.k = "BoundaryPair" ->
            HasUnboundOperator(e.field) \/ HasUnboundOperator(e.bfield)
      [] OTHER -> FALSE

(***************************************************************************)
(* The binder run twice on a raw template.                                 *)
(***************************************************************************)
InitBinder ==
    /\ pc = "raw"
    /\ \E n \in 1..BinderMaxLeaves : expr \in RawTemplates(n)
    /\ other = None
    /\ result = None
    /\ prev = None
    /\ error = NoError

Bind ==
    /\ pc = "raw"
    /\ result' = OperatorBinder(expr)
    /\ pc' = "bound"
    /\ UNCHANGED <<expr, other, prev, error>>

BindAgain ==
    /\ pc = "bound"
    /\ prev' = result
    /\ result' = OperatorBinder(result)
    /\ pc' = "rebound"
    /\ UNCHANGED <<expr, other, error>>

NextBinder == Bind \/ BindAgain

SpecBinder == InitBinder /\ [][NextBinder]_vars

\* C1: binding an already bound tree changes nothing
C1_BinderIdempotent == pc = "rebound" => result = prev

\* C2: after the binder no product has an operator followed by further factors
C2_AllOperatorsBound == pc = "bound" => ~HasUnboundOperator(result)

(***************************************************************************)
(* Two nodes are compared and hashed.                                      *)
(***************************************************************************)
EqFluxes == {FieldComponent(0, TRUE), FieldComponent(0, FALSE)}
EqOperators ==
    {MassOperator, InverseMassOperator, ElementwiseMaxOperator}
        \cup {DifferentiationOperator(a) : a \in Axes}
        \cup {MInvSTOperator(a) : a \in Axes}
        \cup {StiffnessOperator(a) : a \in Axes}
        \cup {StiffnessTOperator(a) : a \in Axes}
        \cup {BoundarizeOperator(t) : t \in BoundaryTags}
        \cup {FluxExchangeOperator(i, r) : i \in {0, 1}, r \in Ranks}
        \cup {FluxOperator(f) : f \in EqFluxes}
        \cup {LiftingFluxOperator(f) : f \in EqFluxes}
EqFields ==
    {Field("u"), Field("v"), ObjArray(<<Field("u"), Field("v")>>)}
EqBoundOperators ==
    {MassOperator, InverseMassOperator, DifferentiationOperator(0),
     StiffnessOperator(0), FluxOperator(FieldComponent(0, TRUE)),
     LiftingFluxOperator(FieldComponent(0, TRUE))}
EqPairs ==
    {BoundaryPair(f, b, t) :
        f \in {Field("u"), ObjArray(<<Field("u"), Field("v")>>)},
        b \in {Field("u"), Field("v")},
        t \in BoundaryTags}
EqNodes ==
    EqOperators
        \cup {BoundaryNormalComponent(t, a) : t \in BoundaryTags, a \in Axes}
        \cup {OperatorBinding(op, f) : op \in EqBoundOperators, f \in EqFields}
        \cup EqPairs
        \cup {OperatorBinding(op, bp) :
                op \in {FluxOperator(FieldComponent(0, TRUE)),
                        LiftingFluxOperator(FieldComponent(0, TRUE))},
                bp \in EqPairs}

InitEq ==
    /\ pc = "nodes"
    /\ expr \in EqNodes
    /\ other \in EqNodes
    /\ result = None
    /\ prev = None
    /\ error = NoError

\* expr.is_equal(other)
Compare ==
    /\ pc = "nodes"
    /\ result' = [k |-> "bool", val |-> is_equal(expr, other)]
    /\ pc' = "compared"
    /\ UNCHANGED <<expr, other, prev, error>>

\* expr.get_hash(), other.get_hash()
Hash ==
    /\ pc = "compared"
    /\ prev' = [k |-> "hashes", self |-> get_hash(expr), other |-> get_hash(other)]
    /\ pc' = "hashed"
    /\ UNCHANGED <<expr, other, result, error>>

NextEq == Compare \/ Hash

SpecEq == InitEq /\ [][NextEq]_vars

\* C3: nodes that is_equal reports equal have equal hashes
C3_EqualImpliesEqualHash ==
    (pc = "hashed" /\ result.val) => prev.self = prev.other

C3_Witness ==
    /\ pc = "hashed"
    /\ result.val
    /\ expr.k = "OperatorBinding"
    /\ expr.field.k = "BoundaryPair"
    /\ prev.self = prev.other

\* C4: is_equal holds exactly between nodes of the same class with the same
\* payload (for a binding: operator and operand; for a pair: both fields and
\* the tag)
C4_EqualityIsExact ==
    pc = "compared" => (result.val <=> expr = other)

C4_Witness ==
    /\ pc = "compared"
    /\ expr.k = "FluxOperator"
    /\ other.k = "LiftingFluxOperator"
    /\ expr.flux = other.flux
    /\ ~result.val

(***************************************************************************)
(* Fully bound trees: sums, products and bindings of the local operators   *)
(* and of a flux operator, over a few operands (a field, a number, a sum). *)
(***************************************************************************)
ContractLeaves == {Field("u"), Constant(2), Sum(<<Field("u"), Constant(2)>>)}
ContractOperators ==
    {InverseMassOperator, MassOperator,
     FluxOperator(FieldComponent(0, TRUE))}
        \cup {StiffnessOperator(a) : a \in Axes}
        \cup {StiffnessTOperator(a) : a \in Axes}

RECURSIVE BoundTemplates(_)
RECURSIVE BoundForests(_, _)
BoundForests(n, minlen) ==
    IF n = 0 THEN (IF minlen <= 0 THEN {<<>>} ELSE {})
    ELSE UNION {{<<t>> \o f : t \in BoundTemplates(j),
                              f \in BoundForests(n - j, minlen - 1)}
                : j \in 1..(IF minlen > 1 THEN n - (minlen - 1) ELSE n)}

BoundTemplates(n) ==
    IF n = 1 THEN ContractLeaves
    ELSE {Sum(f) : f \in BoundForests(n, 2)}
         \cup {Product(f) : f \in BoundForests(n, 2)}
         \cup {OperatorBinding(op, t) :
                 op \in ContractOperators, t \in BoundTemplates(n - 1)}

(***************************************************************************)
(* What a bound tree denotes, up to the laws InverseMass o Mass = id,      *)
(* InverseMass o Stiffness(a) = Differentiation(a), InverseMass o          *)
(* StiffnessT(a) = MInvST(a), InverseMass o Flux(f) = LiftingFlux(f), and  *)
(* linearity of InverseMass over sums and scalar multiples.  A sum denotes *)
(* the bag of its terms, a product a number times the bag of its other     *)
(* factors; a fused operator denotes InverseMass over the operator it      *)
(* fuses.                                                                  *)
(***************************************************************************)
EmptyBagOfNodes == [x \in {} |-> 0]
BagJoin(b1, b2) ==
    [x \in DOMAIN b1 \cup DOMAIN b2 |->
        (IF x \in DOMAIN b1 THEN b1[x] ELSE 0)
            + (IF x \in DOMAIN b2 THEN b2[x] ELSE 0)]
BagScale(b, n) == [x \in DOMAIN b |-> b[x] * n]
BagOfOne(x) == [y \in {x} |-> 1]
BagIsOne(b) == Cardinality(DOMAIN b) = 1 /\ \A x \in DOMAIN b : b[x] = 1
BagTheOne(b) == CHOOSE x \in DOMAIN b : TRUE

SumTerms(d) ==
    IF d.k = "NSum" THEN d.terms
    ELSE IF d.k = "Constant" /\ d.val = 0 THEN EmptyBagOfNodes
    ELSE BagOfOne(d)
MkSum(terms) ==
    IF DOMAIN terms = {} THEN Constant(0)
    ELSE IF BagIsOne(terms) THEN BagTheOne(terms)
    ELSE [k |-> "NSum", terms |-> terms]

ProdCoeff(d) ==
    IF d.k = "Constant" THEN d.val ELSE IF d.k = "NProd" THEN d.coeff ELSE 1
ProdFactors(d) ==
    IF d.k = "Constant" THEN EmptyBagOfNodes
    ELSE IF d.k = "NProd" THEN d.factors
    ELSE BagOfOne(d)
MkProd(coeff, factors) ==
    IF coeff = 0 THEN Constant(0)
    ELSE IF DOMAIN factors = {} THEN Constant(coeff)
    ELSE IF coeff = 1 /\ BagIsOne(factors) THEN BagTheOne(factors)
    ELSE [k |-> "NProd", coeff |-> coeff, factors |-> factors]
ScalarMul(c, d) == MkProd(c * ProdCoeff(d), ProdFactors(d))

RECURSIVE ApplyInverseMass(_)
RECURSIVE InverseMassOfTerms(_, _)
InverseMassOfTerms(terms, todo) ==
    IF todo = {} THEN EmptyBagOfNodes
    ELSE LET x == CHOOSE x \in todo : TRUE
         IN  BagJoin(BagScale(SumTerms(ApplyInverseMass(x)), terms[x]),
                     InverseMassOfTerms(terms, todo \ {x}))

ApplyInverseMass(d) ==
    CASE d.k = "OperatorBinding" /\ d.op.k = "MassOperator" -> d.field
      [] d.k = "NSum" -> MkSum(InverseMassOfTerms(d.terms, DOMAIN d.terms))
      [] d.k = "NProd" /\ BagIsOne(d.factors) ->
            ScalarMul(d.coeff, ApplyInverseMass(BagTheOne(d.factors)))
      [] d.k = "Constant" /\ d.val = 0 -> d
      [] OTHER -> OperatorBinding(InverseMassOperator, d)

RECURSIVE Denote(_)
RECURSIVE DenoteSum(_, _)
RECURSIVE DenoteProductCoeff(_, _)
RECURSIVE DenoteProductFactors(_, _)
DenoteSum(ch, i) ==
    IF i > Len(ch) THEN EmptyBagOfNodes
    ELSE BagJoin(SumTerms(Denote(ch[i])), DenoteSum(ch, i + 1))
DenoteProductCoeff(ch, i) ==
    IF i > Len(ch) THEN 1
    ELSE ProdCoeff(Denote(ch[i])) * DenoteProductCoeff(ch, i + 1)
DenoteProductFactors(ch, i) ==
    IF i > Len(ch) THEN EmptyBagOfNodes
    ELSE BagJoin(ProdFactors(Denote(ch[i])), DenoteProductFactors(ch, i + 1))

Denote(e) ==
    CASE e.k = "Sum" -> MkSum(DenoteSum(e.children, 1))
      [] e.k = "Product" ->
            MkProd(DenoteProductCoeff(e.children, 1),
                   DenoteProductFactors(e.children, 1))
      [] e.k = "OperatorBinding" ->
            LET x == Denote(e.field)
            IN  CASE e.op.k = "InverseMassOperator" -> ApplyInverseMass(x)
                  [] e.op.k = "DifferentiationOperator" ->
                        ApplyInverseMass(OperatorBinding(
                            StiffnessOperator(e.op.xyz_axis), x))
                  [] e.op.k = "MInvSTOperator" ->
                        ApplyInverseMass(OperatorBinding(
                            StiffnessTOperator(e.op.xyz_axis), x))
                  [] e.op.k = "LiftingFluxOperator" ->
                        ApplyInverseMass(OperatorBinding(
                            FluxOperator(e.op.flux), x))
                  [] OTHER -> OperatorBinding(e.op, x)
      [] OTHER -> e

(***************************************************************************)
(* InverseMassContractor run on a bound tree.                              *)
(***************************************************************************)
InitContract ==
    /\ pc = "bound"
    /\ \E n \in 1..ContractMaxSize : expr \in BoundTemplates(n)
    /\ other = None
    /\ result = None
    /\ prev = None
    /\ error = NoError

Contract ==
    /\ pc = "bound"
    /\ result' = InverseMassContractor(expr)
    /\ pc' = "contracted"
    /\ UNCHANGED <<expr, other, prev, error>>

NextContract == Contract

SpecContract == InitContract /\ [][NextContract]_vars

IsBindingOf(e, opk) == e.k = "OperatorBinding" /\ e.op.k = opk
IsInverseMassOver(e, opk) ==
    IsBindingOf(e, "InverseMassOperator") /\ IsBindingOf(e.field, opk)

\* C5: InverseMass over Mass over x contracts to exactly x
C5_InverseMassCancelsMass ==
    (pc = "contracted" /\ IsInverseMassOver(expr, "MassOperator"))
        => result = expr.field.field

C5_Witness ==
    /\ pc = "contracted"
    /\ IsInverseMassOver(expr, "MassOperator")
    /\ expr.field.field.k = "Sum"
    /\ result = expr.field.field

\* C6: InverseMass over Stiffness(axis), StiffnessT(axis), Flux(f) applied to
\* x contracts to Differentiation(axis), MInvST(axis), LiftingFlux(f) applied
\* to the same x
C6_FusedOperatorRewrites ==
    pc = "contracted" =>
        /\ IsInverseMassOver(expr, "StiffnessOperator") =>
              result = OperatorBinding(
                  DifferentiationOperator(expr.field.op.xyz_axis),
                  expr.field.field)
        /\ IsInverseMassOver(expr, "StiffnessTOperator") =>
              result = OperatorBinding(
                  MInvSTOperator(expr.field.op.xyz_axis), expr.field.field)
        /\ IsInverseMassOver(expr, "FluxOperator") =>
              result = OperatorBinding(
                  LiftingFluxOperator(expr.field.op.flux), expr.field.field)

C6_Witness ==
    /\ pc = "contracted"
    /\ IsInverseMassOver(expr, "StiffnessTOperator")
    /\ expr.field.op.xyz_axis = MaxAxis
    /\ expr.field.field.k = "Sum"
    /\ result.op = MInvSTOperator(MaxAxis)

\* C7: the contracted tree denotes the same operator as the input
C7_ContractionKeepsMeaning ==
    pc = "contracted" => Denote(result) = Denote(expr)

(***************************************************************************)
(* BCToFluxRewriter on a FluxOperator bound to a BoundaryPair: the pair is *)
(* constructed from a volume field, a boundary field and a tag, the flux   *)
(* operator is bound to it, and the rewriter maps the binding.             *)
(***************************************************************************)
RewriterVolFields ==
    {Field("u"), Field("v"), ObjArray(<<Field("u"), Field("v")>>),
     ObjArray(<<Field("u"), Field("u")>>)}

RewriterBdryLeaves ==
    {Field("w"), Field("u"), Constant(0)}
    \cup {BoundaryNormalComponent(t, 0) : t \in BoundaryTags}
    \cup {OperatorBinding(BoundarizeOperator(t), x) :
            t \in BoundaryTags,
            x \in {Field("u"), Field("v"),
                   Product(<<BoundaryNormalComponent(TAG_USER, 0),
                             Field("v")>>)}}
    \cup {OperatorBinding(FluxExchangeOperator(0, r), Field("w")) :
            r \in Ranks}
    \cup {OperatorBinding(MassOperator, Field("w")),
          OperatorBinding(DifferentiationOperator(0), Field("w"))}

RewriterBdryFields ==
    RewriterBdryLeaves
    \cup {Sum(<<a, b>>) : a \in RewriterBdryLeaves, b \in RewriterBdryLeaves}
    \cup {ObjArray(<<a, b>>) :
            a \in RewriterBdryLeaves, b \in {Field("w"), Constant(0)}}
    \cup {Product(<<BoundaryNormalComponent(TAG_ALL, 0),
                     Sum(<<Field("w"), b>>)>>) : b \in RewriterBdryLeaves}

\* fluxes that refer to components the boundary field has
RewriterFluxes(bfield) ==
    IF is_obj_array(bfield)
    THEN {FieldComponent(1, FALSE),
          Sum(<<FieldComponent(0, TRUE), FieldComponent(0, FALSE)>>)}
    ELSE {FieldComponent(0, FALSE),
          Sum(<<FieldComponent(0, TRUE),
                Product(<<Normal(0), FieldComponent(0, FALSE)>>)>>),
          Sum(<<Product(<<Constant(2), FieldComponent(0, TRUE)>>),
                Product(<<Constant(3), FieldComponent(0, FALSE)>>)>>)}

InitRewrite ==
    /\ pc = "arguments"
    /\ \E field \in RewriterVolFields, bfield \in RewriterBdryFields,
          tag \in BoundaryTags :
          \E flux \in RewriterFluxes(bfield) :
              other = [field |-> field, bfield |-> bfield, tag |-> tag,
                       flux |-> flux]
    /\ expr = None
    /\ result = None
    /\ prev = None
    /\ error = NoError

\* BoundaryPair(field, bfield, tag)
Construct ==
    /\ pc = "arguments"
    /\ expr' = BoundaryPair(other.field, other.bfield, other.tag)
    /\ error' = NoError
    /\ pc' = "constructed"
    /\ UNCHANGED <<other, result, prev>>

\* OperatorBinding(FluxOperator(flux), bpair)
BindFlux ==
    /\ pc = "constructed"
    /\ expr' = OperatorBinding(FluxOperator(other.flux), expr)
    /\ pc' = "flux bound"
    /\ UNCHANGED <<other, result, prev, error>>

\* BCToFluxRewriter()(expr)
Rewrite ==
    /\ pc = "flux bound"
    /\ LET err == BCToFluxRewriter_raises(expr)
       IN  /\ error' = err
           /\ result' = IF err = NoError THEN BCToFluxRewriter(expr)
                        ELSE None
    /\ pc' = "rewritten"
    /\ UNCHANGED <<expr, other, prev>>

NextRewrite == Construct \/ BindFlux \/ Rewrite

SpecRewrite == InitRewrite /\ [][NextRewrite]_vars

IsCollisionError(err) ==
    err.k = "RuntimeError" /\ err.what = "namespace collision"

IsTagError(err) == err.k = "RuntimeError" /\ err.what = "tag mismatch"

\* C8: a BoundaryPair constructed with the same variable as field and bfield
\* raises a namespace-collision error at construction
C8_ConstructionRejectsSharedVariable ==
    (pc = "constructed" /\ other.field.k = "Variable"
        /\ other.bfield = other.field)
        => IsCollisionError(error)

\* the variables, scalar parameters and operator bindings (taken as leaves)
\* of an expression
RECURSIVE SymbolsOf(_)
SymbolsOf(e) ==
    IF e.k \in {"Variable", "ScalarParameter", "OperatorBinding"} THEN {e}
    ELSE IF e.k \in {"Sum", "Product", "ObjArray"}
    THEN UNION {SymbolsOf(e.children[i]) : i \in 1..Len(e.children)}
    ELSE {}

SharedSymbols == SymbolsOf(other.bfield) \cap SymbolsOf(other.field)

\* C9: when the rewriter maps a FluxOperator bound to a BoundaryPair whose
\* two sides share symbols it raises the error naming the shared symbols,
\* whatever the mining of the boundary side would find, and returns no tree;
\* when they share none it raises no collision error
C9_CollisionCheck ==
    pc = "rewritten" =>
        IF SharedSymbols # {}
        THEN error = CollisionError(SharedSymbols) /\ result = None
        ELSE ~IsCollisionError(error)

\* the nodes of an expression
RECURSIVE NodesOf(_)
NodesOf(e) ==
    {e} \cup
    (IF e.k \in {"Sum", "Product", "ObjArray"}
     THEN UNION {NodesOf(e.children[i]) : i \in 1..Len(e.children)}
     ELSE IF e.k = "OperatorBinding" THEN NodesOf(e.field)
     ELSE {})

\* the tag of a node that has to agree with the tag of the pair
HasTag(n) ==
    \/ n.k = "BoundaryNormalComponent"
    \/ n.k = "OperatorBinding"
        /\ n.op.k \in {"BoundarizeOperator", "FluxExchangeOperator"}
TagOf(n) ==
    IF n.k = "BoundaryNormalComponent" THEN n.tag
    ELSE IF n.op.k = "BoundarizeOperator" THEN n.op.tag
    ELSE TAG_RANK_BOUNDARY(n.op.rank)

MismatchedTags ==
    {TagOf(n) : n \in {x \in NodesOf(other.bfield) :
                          HasTag(x) /\ TagOf(x) # other.tag}}

C9_Witness ==
    /\ pc = "rewritten"
    /\ IsCollisionError(error)
    /\ error.symbols = {Field("u")}
    /\ MismatchedTags # {}

\* C10: a NormalComponent, Boundarize binding or FluxExchange binding in the
\* boundary-side expression whose tag differs from the tag of the pair makes
\* the rewriter raise an error carrying both tags and return no tree
C10_TagMismatchRaises ==
    (pc = "rewritten" /\ MismatchedTags # {})
        => /\ IsTagError(error)
           /\ error.tags[1] \in MismatchedTags
           /\ error.tags[2] = other.tag
           /\ result = None

\* the nodes of the boundary-side expression in the order the rewriter's
\* miner meets them: sums, products and arrays are entered from left to
\* right, every other node is met as a whole
RECURSIVE NodesInOrder(_)
RECURSIVE NodesInOrderOfAll(_)
NodesInOrderOfAll(children) ==
    IF children = <<>> THEN <<>>
    ELSE NodesInOrder(Head(children)) \o NodesInOrderOfAll(Tail(children))
NodesInOrder(e) ==
    IF e.k \in {"Sum", "Product", "ObjArray"}
    THEN NodesInOrderOfAll(e.children)
    ELSE <<e>>

IsIllegalBinding(n) ==
    n.k = "OperatorBinding"
        /\ n.op.k \notin {"BoundarizeOperator", "FluxExchangeOperator"}

IsBoundaryOperatorError(err) ==
    err.k = "RuntimeError" /\ err.what = "operator on boundary data"

\* the positions of the bindings of an operator other than Boundarize and
\* FluxExchange, and of the nodes that raise whatever comes after them
IllegalPositions ==
    {i \in 1..Len(NodesInOrder(other.bfield)) :
        IsIllegalBinding(NodesInOrder(other.bfield)[i])}
OffendingPositions ==
    {i \in 1..Len(NodesInOrder(other.bfield)) :
        LET n == NodesInOrder(other.bfield)[i]
        IN  IsIllegalBinding(n) \/ (HasTag(n) /\ TagOf(n) # other.tag)}

RECURSIVE ExteriorAsInterior(_, _)
ExteriorAsInterior(flux, idx) ==
    IF flux.k = "FieldComponent"
    THEN IF flux.is_interior THEN flux ELSE FieldComponent(idx, TRUE)
    ELSE IF flux.k \in {"Sum", "Product"}
    THEN [flux EXCEPT !.children =
            [i \in 1..Len(flux.children) |->
                ExteriorAsInterior(flux.children[i], idx)]]
    ELSE flux

RECURSIVE FieldComponentsOf(_)
FieldComponentsOf(flux) ==
    IF flux.k = "FieldComponent" THEN {flux}
    ELSE IF flux.k \in {"Sum", "Product"}
    THEN UNION {FieldComponentsOf(flux.children[i]) :
                    i \in 1..Len(flux.children)}
    ELSE {}

IsTraceOfVolumeField ==
    /\ other.field.k = "Variable"
    /\ other.bfield = OperatorBinding(BoundarizeOperator(other.tag),
                                      other.field)

\* C12: for the pair (u, Boundarize(T)(u), T) the rewriter returns a Flux
\* binding whose flux is the given flux with the exterior component replaced
\* by the interior component 0, over the pair ([u], [], T)
C12_BoundaryTraceElimination ==
    (pc = "rewritten" /\ IsTraceOfVolumeField) =>
        /\ error = NoError
        /\ result.k = "OperatorBinding"
        /\ result.op.k = "FluxOperator"
        /\ result.op.flux = ExteriorAsInterior(other.flux, 0)
        /\ \A c \in FieldComponentsOf(result.op.flux) : c.is_interior
        /\ result.field = BoundaryPair(ObjArray(<<other.field>>),
                                       ObjArray(<<>>), other.tag)

C12_Witness ==
    /\ pc = "rewritten"
    /\ IsTraceOfVolumeField
    /\ other.tag = TAG_RANK_BOUNDARY(MaxRank)
    /\ other.flux = Sum(<<Product(<<Constant(2), FieldComponent(0, TRUE)>>),
                          Product(<<Constant(3), FieldComponent(0, FALSE)>>)>>)
    /\ result.k = "OperatorBinding"

(***************************************************************************)
(* EmptyFluxKiller on trees of flux and other bindings, for every count of *)
(* boundary nodes the discretization may report for the tags.              *)
(***************************************************************************)
KillerOperands ==
    {Field("u")}
    \cup {BoundaryPair(Field("u"), Field("w"), t) : t \in BoundaryTags}

KillerOperators ==
    {FluxOperator(FieldComponent(0, TRUE)),
     LiftingFluxOperator(FieldComponent(0, TRUE)), MassOperator}

KillerBindings ==
    {OperatorBinding(op, f) : op \in KillerOperators, f \in KillerOperands}

KillerTerms == KillerBindings \cup {Field("u")}

KillerTrees ==
    KillerBindings
    \cup {OperatorBinding(InverseMassOperator, b) : b \in KillerBindings}
    \cup {OperatorBinding(MassOperator, Sum(<<b, Field("v")>>)) :
            b \in KillerBindings}
    \cup {Sum(<<a, b>>) : a \in KillerTerms, b \in KillerTerms}
    \cup {Sum(<<Field("v"), b, Field("u")>>) : b \in KillerBindings}
    \cup {Sum(<<Sum(<<Field("u"), Field("v")>>), b>>) : b \in KillerBindings}
    \cup {Product(<<Constant(2), b>>) : b \in KillerBindings}

Discretizations ==
    {[nodes |-> n] : n \in [BoundaryTags -> 0..MaxBoundaryNodes]}

InitKiller ==
    /\ pc = "template"
    /\ expr \in KillerTrees
    /\ other \in Discretizations
    /\ result = None
    /\ prev = None
    /\ error = NoError

\* EmptyFluxKiller(discr)(expr)
Kill ==
    /\ pc = "template"
    /\ result' = EmptyFluxKiller(other, expr)
    /\ pc' = "killed"
    /\ UNCHANGED <<expr, other, prev, error>>

NextKiller == Kill

SpecKiller == InitKiller /\ [][NextKiller]_vars

\* a Flux or LiftingFlux binding over a BoundaryPair whose tag has no nodes
IsDeadFlux(e) ==
    /\ e.k = "OperatorBinding"
    /\ e.op.k \in {"FluxOperator", "LiftingFluxOperator"}
    /\ e.field.k = "BoundaryPair"
    /\ other.nodes[e.field.tag] = 0

RECURSIVE HasDeadFlux(_)
HasDeadFlux(e) ==
    \/ IsDeadFlux(e)
    \/ e.k \in {"Sum", "Product", "ObjArray"}
        /\ \E i \in 1..Len(e.children) : HasDeadFlux(e.children[i])
    \/ e.k = "OperatorBinding" /\ HasDeadFlux(e.field)
    \/ e.k = "BoundaryPair"
        /\ (HasDeadFlux(e.field) \/ HasDeadFlux(e.bfield))

\* C13: EmptyFluxKiller returns 0 for a binding exactly when it is a Flux or
\* LiftingFlux binding over a BoundaryPair whose tag has no boundary nodes;
\* any other binding is returned with the same operator over the processed
\* operand, in which no dead flux is left
C13_DeadFluxElimination ==
    (pc = "killed" /\ expr.k = "OperatorBinding") =>
        IF IsDeadFlux(expr)
        THEN result = Constant(0)
        ELSE /\ result.k = "OperatorBinding"
             /\ result.op = expr.op
             /\ result.field = EmptyFluxKiller(other, expr.field)
             /\ ~HasDeadFlux(result)

C13_Witness ==
    /\ pc = "killed"
    /\ expr.k = "OperatorBinding"
    /\ expr.op.k = "LiftingFluxOperator"
    /\ IsDeadFlux(expr)
    /\ result = Constant(0)

\* the addends of a sum: those of its terms that are sums are opened, a 0
\* adds nothing, anything else is its own single addend
RECURSIVE AddendsOf(_)
RECURSIVE AddendsOfAll(_)
AddendsOfAll(terms) ==
    IF terms = <<>> THEN <<>>
    ELSE AddendsOf(Head(terms)) \o AddendsOfAll(Tail(terms))
AddendsOf(e) ==
    IF e.k = "Sum" THEN AddendsOfAll(e.children)
    ELSE IF e = Constant(0) THEN <<>>
    ELSE <<e>>

TimesIn(x, seq) == Cardinality({i \in 1..Len(seq) : seq[i] = x})

SameAddends(a, b) ==
    /\ Len(a) = Len(b)
    /\ \A i \in 1..Len(a) : TimesIn(a[i], a) = TimesIn(a[i], b)

LiveTerms(terms) == SelectSeq(terms, LAMBDA t : ~IsDeadFlux(t))

\* C14: when EmptyFluxKiller kills a term of a Sum, the result has no addend
\* for it, neither the binding nor a 0, and its addends are the other terms
C14_DeadFluxLeavesSum ==
    (pc = "killed" /\ expr.k = "Sum"
        /\ \E i \in 1..Len(expr.children) : IsDeadFlux(expr.children[i]))
        => /\ \A i \in 1..Len(AddendsOf(result)) :
                 /\ ~IsDeadFlux(AddendsOf(result)[i])
                 /\ AddendsOf(result)[i] # Constant(0)
           /\ result.k = "Sum" =>
                 \A i \in 1..Len(result.children) :
                     result.children[i] # Constant(0)
           /\ SameAddends(AddendsOf(result),
                          AddendsOfAll(LiveTerms(expr.children)))

C14_Witness ==
    /\ pc = "killed"
    /\ expr.k = "Sum"
    /\ Len(expr.children) = 3
    /\ IsDeadFlux(expr.children[2])
    /\ result = Sum(<<Field("v"), Field("u")>>)

(***************************************************************************)
(* The passes on one input tree that is kept in memory: the volume field   *)
(* of the BoundaryPair is an object array, an object of the heap that the  *)
(* tree refers to by its position.  The variable prev is the heap here, a  *)
(* sequence of the contents of the list and array objects; expr is the     *)
(* tree as it was handed over.                                             *)
(***************************************************************************)
Passes ==
    {"OperatorBinder", "InverseMassContractor", "EmptyFluxKiller",
     "BCToFluxRewriter"}

\* list(vol_field): a new list with the same items
ListCopy(heap, id) == [heap |-> Append(heap, heap[id]), id |-> Len(heap) + 1]

\* [vol_field]: a new list
NewList(heap, items) == [heap |-> Append(heap, items), id |-> Len(heap) + 1]

\* the tree of the arguments in other, read from the heap
InputTree(heap) ==
    OperatorBinding(
        FluxOperator(other.flux),
        BoundaryPair(IF other.is_array THEN ObjArray(heap[1])
                     ELSE other.field,
                     other.bfield, other.tag))

\* a slip: the miner is given the list of the pair, not a copy of it
BCToFluxRewriter_heap_shared(heap) ==
    LET e == InputTree(heap)
        mined == Finder_rec(
            MaxBoundaryFluxEvaluableExpressionFinder(
                IF other.is_array THEN heap[1] ELSE <<other.field>>,
                e.field),
            e.field.bfield)
    IN  IF BCToFluxRewriter_raises(e) # NoError
           /\ IsCollisionError(BCToFluxRewriter_raises(e))
        THEN heap
        ELSE IF other.is_array
        THEN [heap EXCEPT ![1] = mined.self.vol_expr_list]
        ELSE heap

\* what BCToFluxRewriter.map_operator_binding leaves in the heap: the list
\* given to the miner is a copy, the miner appends to it in place, and the
\* objects made during the call are not referred to by the input
BCToFluxRewriter_heap(heap) ==
    LET e == InputTree(heap)
        vol_field ==
            IF other.is_array THEN [heap |-> heap, id |-> 1]
            ELSE NewList(heap, <<other.field>>)
        copy == ListCopy(vol_field.heap, vol_field.id)
        mined == Finder_rec(
            MaxBoundaryFluxEvaluableExpressionFinder(
                copy.heap[copy.id], e.field),
            e.field.bfield)
        after == [copy.heap EXCEPT ![copy.id] = mined.self.vol_expr_list]
    IN  IF BCToFluxRewriter_raises(e) # NoError
           /\ IsCollisionError(BCToFluxRewriter_raises(e))
        THEN heap
        ELSE SubSeq(after, 1, Len(heap))

PurityVolFields ==
    {Field("u"), ObjArray(<<Field("u")>>),
     ObjArray(<<Field("u"), Field("v")>>)}

PurityBdryFields ==
    {Field("w"),
     OperatorBinding(MassOperator, Field("w")),
     Product(<<MassOperator, Field("w")>>)}
    \cup {OperatorBinding(BoundarizeOperator(t), x) :
            t \in BoundaryTags, x \in {Field("u"), Field("v")}}
    \cup {Sum(<<OperatorBinding(BoundarizeOperator(t), Field("v")),
                OperatorBinding(BoundarizeOperator(TAG_ALL), x)>>) :
            t \in BoundaryTags,
            x \in {Field("x"),
                   OperatorBinding(InverseMassOperator,
                       OperatorBinding(MassOperator, Field("x")))}}

InitPurity ==
    /\ pc = "in memory"
    /\ \E field \in PurityVolFields, bfield \in PurityBdryFields,
          tag \in {TAG_ALL, TAG_USER},
          discr \in {[nodes |-> [t \in BoundaryTags |-> n]] :
                        n \in 0..MaxBoundaryNodes} :
          /\ other = [is_array |-> is_obj_array(field), field |-> field,
                      bfield |-> bfield, tag |-> tag,
                      flux |-> FieldComponent(0, FALSE), discr |-> discr]
          /\ prev = IF is_obj_array(field) THEN <<field.children>> ELSE <<>>
          /\ expr = OperatorBinding(FluxOperator(FieldComponent(0, FALSE)),
                                    BoundaryPair(field, bfield, tag))
    /\ result = [p \in Passes |-> None]
    /\ error = NoError

RunOperatorBinder ==
    /\ pc = "in memory"
    /\ result' = [result EXCEPT
                    !["OperatorBinder"] = OperatorBinder(InputTree(prev))]
    /\ UNCHANGED <<pc, expr, other, prev, error>>

RunInverseMassContractor ==
    /\ pc = "in memory"
    /\ result' = [result EXCEPT
                    !["InverseMassContractor"] =
                        InverseMassContractor(InputTree(prev))]
    /\ UNCHANGED <<pc, expr, other, prev, error>>

RunEmptyFluxKiller ==
    /\ pc = "in memory"
    /\ result' = [result EXCEPT
                    !["EmptyFluxKiller"] =
                        EmptyFluxKiller(other.discr, InputTree(prev))]
    /\ UNCHANGED <<pc, expr, other, prev, error>>

RunBCToFluxRewriter ==
    /\ pc = "in memory"
    /\ LET e == InputTree(prev)
           err == BCToFluxRewriter_raises(e)
       IN  /\ result' = [result EXCEPT
                           !["BCToFluxRewriter"] =
                               IF err = NoError THEN BCToFluxRewriter(e)
                               ELSE err]
           /\ prev' = BCToFluxRewriter_heap(prev)
    /\ UNCHANGED <<pc, expr, other, error>>

NextPurity ==
    \/ RunOperatorBinder
    \/ RunInverseMassContractor
    \/ RunEmptyFluxKiller
    \/ RunBCToFluxRewriter

SpecPurity == InitPurity /\ [][NextPurity]_vars

\* C15: whatever passes have run, the input tree read from memory is the
\* tree that was handed over, and a pass that runs again returns what it
\* returned before
C15_PassesArePure ==
    /\ [](pc = "in memory" => InputTree(prev) = expr)
    /\ [][\A p \in Passes : result[p] # None => result'[p] = result[p]]_vars

C15_Witness ==
    /\ pc = "in memory"
    /\ \A p \in Passes : result[p] # None
    /\ other.field = ObjArray(<<Field("u")>>)
    /\ result["BCToFluxRewriter"].k = "OperatorBinding"
    /\ Len(result["BCToFluxRewriter"].field.field.children) = 3

(***************************************************************************)
(* BoundOpMapperMixin combined with IdentityMapper.  The mapper classes    *)
(* here are IdentityMapper itself and the two classes that inherit both,   *)
(* named by the order of their bases.                                      *)
(***************************************************************************)
MixinMapperClasses ==
    {"IdentityMapper",
     "BoundOpMapperMixin, IdentityMapper",
     "IdentityMapper, BoundOpMapperMixin"}

\* isinstance(self, BoundOpMapperMixin)
IsBoundOpMapper(m) ==
    m.cls \in {"BoundOpMapperMixin, IdentityMapper",
               "IdentityMapper, BoundOpMapperMixin"}

AssertionError ==
    [k |-> "AssertionError",
     msg |-> "IdentityMapper instances cannot be combined with the BoundOpMapperMixin"]

\* the assert statements of IdentityMapperMixin: TRUE when they pass
IdentityMapperMixin_map_operator_binding_assert(m) == ~IsBoundOpMapper(m)

IdentityMapperMixin_map_boundary_pair_assert(m) == ~IsBoundOpMapper(m)

\* a slip: map_mass_base has no assert
IdentityMapperMixin_map_mass_base_no_assert(m) == TRUE

IdentityMapperMixin_map_mass_base_assert(m) == ~IsBoundOpMapper(m)

\* the exception that ends self.rec(e) of a mapper of these classes; the
\* method of an OperatorBinding is the one of the first base that has it
RECURSIVE MixinMapper_raises(_, _)
RECURSIVE MixinMapper_first_raised(_, _)
MixinMapper_first_raised(m, nodes) ==
    IF nodes = <<>> THEN NoError
    ELSE LET err == MixinMapper_raises(m, Head(nodes))
         IN  IF err # NoError THEN err
             ELSE MixinMapper_first_raised(m, Tail(nodes))

\* BoundOpMapperMixin.map_operator_binding: the method of the operator is
\* called with the operator and the field; for every operator class that is
\* map_mass_base of IdentityMapperMixin or one of its aliases
BoundOpMapperMixin_map_operator_binding_raises(m, e) ==
    IF IdentityMapperMixin_map_mass_base_assert(m) THEN NoError
    ELSE AssertionError

MixinMapper_raises(m, e) ==
    CASE e.k = "OperatorBinding" ->
            IF m.cls = "BoundOpMapperMixin, IdentityMapper"
            THEN BoundOpMapperMixin_map_operator_binding_raises(m, e)
            ELSE IF ~IdentityMapperMixin_map_operator_binding_assert(m)
            THEN AssertionError
            ELSE MixinMapper_first_raised(m, <<e.op, e.field>>)
      [] e.k = "BoundaryPair" ->
            IF ~IdentityMapperMixin_map_boundary_pair_assert(m)
            THEN AssertionError
            ELSE MixinMapper_first_raised(m, <<e.field, e.bfield>>)
      [] IsOperator(e) \/ e.k = "BoundaryNormalComponent" ->
            IF ~IdentityMapperMixin_map_mass_base_assert(m)
            THEN AssertionError
            ELSE NoError
      [] e.k \in {"Sum", "Product", "ObjArray"} ->
            MixinMapper_first_raised(m, e.children)
      [] OTHER -> NoError

MixinOperators ==
    {MassOperator, InverseMassOperator, ElementwiseMaxOperator,
     FluxOperator(FieldComponent(0, TRUE)),
     LiftingFluxOperator(FieldComponent(0, TRUE))}
    \cup {DifferentiationOperator(a) : a \in Axes}
    \cup {MInvSTOperator(a) : a \in Axes}
    \cup {StiffnessOperator(a) : a \in Axes}
    \cup {StiffnessTOperator(a) : a \in Axes}
    \cup {BoundarizeOperator(t) : t \in BoundaryTags}
    \cup {FluxExchangeOperator(0, r) : r \in Ranks}

MixinOperands ==
    {Field("u")}
    \cup {BoundaryPair(Field("u"), Field("w"), t) : t \in BoundaryTags}

MixinLeaves ==
    MixinOperators
    \cup MixinOperands
    \cup {OperatorBinding(op, f) : op \in MixinOperators, f \in MixinOperands}
    \cup {BoundaryNormalComponent(t, a) : t \in BoundaryTags, a \in Axes}
    \cup {ScalarParameter("dt"), Constant(2)}

MixinNodes ==
    MixinLeaves \cup {Sum(<<Field("v"), n>>) : n \in MixinLeaves}

InitMixin ==
    /\ pc = "mapper"
    /\ expr \in MixinNodes
    /\ other \in {[cls |-> c] : c \in MixinMapperClasses}
    /\ result = None
    /\ prev = None
    /\ error = NoError

\* mapper(expr) for the mapper instance in other
MapNode ==
    /\ pc = "mapper"
    /\ LET err == MixinMapper_raises(other, expr)
       IN  /\ error' = err
           /\ result' = IF err = NoError THEN Rec(other, expr) ELSE None
    /\ pc' = "mapped"
    /\ UNCHANGED <<expr, other, prev>>

NextMixin == MapNode

SpecMixin == InitMixin /\ [][NextMixin]_vars

\* C16: a mapper that inherits BoundOpMapperMixin and IdentityMapper, in
\* either order, fails with the assertion error on an OperatorBinding, a
\* BoundaryPair, an operator and a normal component, and returns no tree
C16_CombinationRejected ==
    (/\ pc = "mapped"
     /\ IsBoundOpMapper(other)
     /\ \/ expr.k \in {"OperatorBinding", "BoundaryPair",
                        "BoundaryNormalComponent"}
        \/ IsOperator(expr))
        => error = AssertionError /\ result = None

C16_Witness ==
    /\ pc = "mapped"
    /\ other.cls = "BoundOpMapperMixin, IdentityMapper"
    /\ expr = OperatorBinding(StiffnessTOperator(MaxAxis), Field("u"))
    /\ error = AssertionError

(***************************************************************************)
(* The pipeline: a raw template, a flux operator times a BoundaryPair with *)
(* or without an InverseMass operator in front, goes through               *)
(* OperatorBinder, InverseMassContractor and BCToFluxRewriter.             *)
(***************************************************************************)
PipelineBdryLeaves ==
    {Field("w")}
    \cup {BoundaryNormalComponent(t, 0) : t \in BoundaryTags}
    \cup {OperatorBinding(BoundarizeOperator(t), Field("v")) :
            t \in BoundaryTags}
    \cup {OperatorBinding(FluxExchangeOperator(0, r), Field("w")) :
            r \in Ranks}

PipelineBdryFields ==
    PipelineBdryLeaves
    \cup {Sum(<<Field("w"), b>>) : b \in PipelineBdryLeaves}

InitPipeline ==
    /\ pc = "raw template"
    /\ \E bfield \in PipelineBdryFields, tag \in BoundaryTags,
          under_inverse_mass \in BOOLEAN :
          LET flux == Sum(<<FieldComponent(0, TRUE),
                           FieldComponent(0, FALSE)>>)
              bpair == BoundaryPair(Field("u"), bfield, tag)
          IN  /\ other = [field |-> Field("u"), bfield |-> bfield,
                          tag |-> tag, flux |-> flux,
                          under_inverse_mass |-> under_inverse_mass]
              /\ expr = IF under_inverse_mass
                        THEN Product(<<InverseMassOperator,
                                       FluxOperator(flux), bpair>>)
                        ELSE Product(<<FluxOperator(flux), bpair>>)
    /\ result = None
    /\ prev = None
    /\ error = NoError

\* OperatorBinder()(expr)
PipelineBind ==
    /\ pc = "raw template"
    /\ result' = OperatorBinder(expr)
    /\ pc' = "bound template"
    /\ UNCHANGED <<expr, other, prev, error>>

\* InverseMassContractor()(result)
PipelineContract ==
    /\ pc = "bound template"
    /\ result' = InverseMassContractor(result)
    /\ prev' = result
    /\ pc' = "contracted template"
    /\ UNCHANGED <<expr, other, error>>

\* BCToFluxRewriter()(result)
PipelineRewrite ==
    /\ pc = "contracted template"
    /\ LET err == BCToFluxRewriter_raises(result)
       IN  /\ error' = err
           /\ result' = IF err = NoError THEN BCToFluxRewriter(result)
                        ELSE None
    /\ prev' = result
    /\ pc' = "lowered template"
    /\ UNCHANGED <<expr, other>>

NextPipeline == PipelineBind \/ PipelineContract \/ PipelineRewrite

SpecPipeline == InitPipeline /\ [][NextPipeline]_vars

\* C17: a template whose BoundaryPair, bound to a flux operator, has in its
\* boundary-side expression a NormalComponent, Boundarize or FluxExchange
\* node with a tag other than the tag of the pair does not come out of the
\* pipeline: the rewriter raises an error and no lowered tree is returned
C17_PipelineTagConsistency ==
    (pc = "lowered template" /\ MismatchedTags # {})
        => error # NoError /\ result = None

(***************************************************************************)
(* The log quantities of src/python/log.py.  A getter is a record: one     *)
(* with the field varname is a VariableGetter, whose name() is its         *)
(* varname; one without it is a callable that has no name().               *)
(***************************************************************************)
ValueError == [k |-> "ValueError", msg |-> "must specify a name"]

\* a Python string, told apart from None by its class
Str(s) == [k |-> "str", s |-> s]

HasNameMethod(getter) == "varname" \in DOMAIN getter

VariableGetter_name(self) == Str(self.varname)

\* LogQuantity.__init__(self, name, unit, description) after self.getter
\* is set
LogQuantity(cls, getter, name) ==
    [val |-> [k |-> cls, getter |-> getter, name |-> name], err |-> NoError]

Integral(getter, name) ==
    IF name = None
    THEN IF HasNameMethod(getter)
         THEN LogQuantity("Integral", getter,
                          Str("int_" \o VariableGetter_name(getter).s))
         ELSE [val |-> None, err |-> ValueError]
    ELSE LogQuantity("Integral", getter, name)

L1Norm(getter, name) ==
    IF name = None
    THEN IF HasNameMethod(getter)
         THEN LogQuantity("L1Norm", getter,
                          Str("l1_" \o VariableGetter_name(getter).s))
         ELSE [val |-> None, err |-> ValueError]
    ELSE LogQuantity("L1Norm", getter, name)

\* a slip: the prefix of L1Norm is left in L2Norm
L2Norm_l1_prefix(getter, name) ==
    IF name = None
    THEN IF HasNameMethod(getter)
         THEN LogQuantity("L2Norm", getter,
                          Str("l1_" \o VariableGetter_name(getter).s))
         ELSE [val |-> None, err |-> ValueError]
    ELSE LogQuantity("L2Norm", getter, name)

L2Norm(getter, name) ==
    IF name = None
    THEN IF HasNameMethod(getter)
         THEN LogQuantity("L2Norm", getter,
                          Str("l2_" \o VariableGetter_name(getter).s))
         ELSE [val |-> None, err |-> ValueError]
    ELSE LogQuantity("L2Norm", getter, name)

LInfNorm(getter, name) ==
    IF name = None
    THEN IF HasNameMethod(getter)
         THEN LogQuantity("LInfNorm", getter,
                          Str("linf_" \o VariableGetter_name(getter).s))
         ELSE [val |-> None, err |-> ValueError]
    ELSE LogQuantity("LInfNorm", getter, name)

LogGetters ==
    {[varname |-> v] : v \in {"u", "v", "rho", "E"}}
    \cup {[callable |-> f] : f \in {"lambda", "function"}}

LogNames == {Str("energy"), Str(""), Str("l2_u")}

InitLog ==
    /\ pc = "arguments of log quantity"
    /\ \E cls \in {"Integral", "L1Norm", "L2Norm", "LInfNorm"},
          getter \in LogGetters :
          \/ other = [cls |-> cls, getter |-> getter, name |-> None]
          \/ \E name \in LogNames :
                other = [cls |-> cls, getter |-> getter, name |-> name]
    /\ expr = None
    /\ result = None
    /\ prev = None
    /\ error = NoError

\* cls(getter, discr, name)
ConstructLogQuantity ==
    /\ pc = "arguments of log quantity"
    /\ LET r == CASE other.cls = "Integral" ->
                        Integral(other.getter, other.name)
                  [] other.cls = "L1Norm" ->
                        L1Norm(other.getter, other.name)
                  [] other.cls = "L2Norm" ->
                        L2Norm(other.getter, other.name)
                  [] other.cls = "LInfNorm" ->
                        LInfNorm(other.getter, other.name)
       IN  result' = r.val /\ error' = r.err
    /\ pc' = "log quantity constructed"
    /\ UNCHANGED <<expr, other, prev>>

NextLog == ConstructLogQuantity

SpecLog == InitLog /\ [][NextLog]_vars

LogPrefix ==
    [c \in {"Integral", "L1Norm", "L2Norm", "LInfNorm"} |->
        CASE c = "Integral" -> "int_"
          [] c = "L1Norm" -> "l1_"
          [] c = "L2Norm" -> "l2_"
          [] c = "LInfNorm" -> "linf_"]

\* C18: without a name and with a getter that has no name() the
\* construction raises ValueError("must specify a name") and makes no
\* quantity; otherwise it succeeds, with the given name or with the prefix
\* of the class followed by getter.name()
C18_MissingNameRaises ==
    pc = "log quantity constructed" =>
        IF other.name = None /\ ~HasNameMethod(other.getter)
        THEN error = ValueError /\ result = None
        ELSE /\ error = NoError
             /\ result.k = other.cls
             /\ result.name =
                    IF other.name # None THEN other.name
                    ELSE Str(LogPrefix[other.cls] \o other.getter.varname)

C18_Witness ==
    /\ pc = "log quantity constructed"
    /\ other.cls = "LInfNorm"
    /\ other.name = None
    /\ ~HasNameMethod(other.getter)
    /\ error = ValueError

(***************************************************************************)
(* InverseMassContractor run on stacks of bindings: operators bound one    *)
(* over the other down to a single operand.                                *)
(***************************************************************************)
NestOperators ==
    {InverseMassOperator, MassOperator, StiffnessOperator(0)}
        \cup {DifferentiationOperator(a) : a \in Axes}

RECURSIVE NestedBindings(_)
NestedBindings(n) ==
    IF n = 0 THEN {Field("u"), Constant(2)}
    ELSE {OperatorBinding(op, t) :
            op \in NestOperators, t \in NestedBindings(n - 1)}

InitNested ==
    /\ pc = "bound stack"
    /\ \E n \in 0..NestMaxDepth : expr \in NestedBindings(n)
    /\ other = None
    /\ result = None
    /\ prev = None
    /\ error = NoError

ContractNested ==
    /\ pc = "bound stack"
    /\ result' = InverseMassContractor(expr)
    /\ pc' = "contracted stack"
    /\ UNCHANGED <<expr, other, prev, error>>

NextNested == ContractNested

SpecNested == InitNested /\ [][NextNested]_vars

ContractibleOperatorClasses ==
    {"MassOperator", "StiffnessOperator", "StiffnessTOperator",
     "FluxOperator"}

IsContractible(e) ==
    /\ IsBindingOf(e, "InverseMassOperator")
    /\ e.field.k = "OperatorBinding"
    /\ e.field.op.k \in ContractibleOperatorClasses

RECURSIVE HasContractible(_)
HasContractible(e) ==
    \/ IsContractible(e)
    \/ e.k = "OperatorBinding" /\ HasContractible(e.field)

\* C19: an InverseMass binding whose operand is none of the Mass,
\* Stiffness, StiffnessT and Flux bindings contracts to InverseMass over
\* the contracted operand: no contractible InverseMass binding of the
\* operand is left in the output
C19_FallbackContractsOperand ==
    (/\ pc = "contracted stack"
     /\ IsBindingOf(expr, "InverseMassOperator")
     /\ ~IsContractible(expr))
        => /\ IsBindingOf(result, "InverseMassOperator")
           /\ ~HasContractible(result.field)

(***************************************************************************)
(* The product rule, on the bound trees of SpecContract.                   *)
(***************************************************************************)
NonScalarFactors(p) == {i \in 1..Len(p.children) : ~IsConstant(p.children[i])}

IsInverseMassOverProduct(e) ==
    IsBindingOf(e, "InverseMassOperator") /\ e.field.k = "Product"

\* C20: InverseMass over a product with more than one non-scalar factor
\* contracts to the product itself; with at most one, to a Product of the
\* same length whose scalar factors are those of the input, in place, and
\* whose non-scalar factor is the contraction of InverseMass over the
\* input's
C20_ProductRule ==
    (pc = "contracted" /\ IsInverseMassOverProduct(expr)) =>
        LET p == expr.field
        IN  IF Cardinality(NonScalarFactors(p)) > 1
            THEN result = p
            ELSE /\ result.k = "Product"
                 /\ Len(result.children) = Len(p.children)
                 /\ \A i \in 1..Len(p.children) :
                       result.children[i] =
                           IF i \in NonScalarFactors(p)
                           THEN InverseMassContractor(
                                    OperatorBinding(InverseMassOperator,
                                                    p.children[i]))
                           ELSE p.children[i]

C20_Witness ==
    /\ pc = "contracted"
    /\ expr = OperatorBinding(InverseMassOperator,
                  Product(<<Constant(2),
                            Sum(<<Field("u"), Constant(2)>>)>>))
    /\ result = Product(<<Constant(2),
                  Sum(<<OperatorBinding(InverseMassOperator, Field("u")),
                        OperatorBinding(InverseMassOperator,
                                        Constant(2))>>)>>)

(***************************************************************************)
(* The binding rebuilt by BCToFluxRewriter, on the runs of SpecRewrite.    *)
(***************************************************************************)
IsRebuilt ==
    /\ pc = "rewritten"
    /\ error = NoError
    /\ result.k = "OperatorBinding"

\* the list positions (0-based) the field components of one side refer to
UsedIndices(flux, is_interior) ==
    {c.index : c \in {d \in FieldComponentsOf(flux) :
                        d.is_interior = is_interior}}

AllUsed(list, flux, is_interior) ==
    \A i \in 1..Len(list) : (i - 1) \in UsedIndices(flux, is_interior)

NoDuplicates(list) ==
    \A i, j \in 1..Len(list) : list[i] = list[j] => i = j

\* C21: the rebuilt binding is a Flux binding over a BoundaryPair with the
\* tag of the original pair, every entry of whose volume and boundary lists
\* is used by the rewritten flux and occurs once
C21_RebuiltPairIsMinimal ==
    IsRebuilt =>
        /\ result.op.k = "FluxOperator"
        /\ result.field.k = "BoundaryPair"
        /\ result.field.tag = other.tag
        /\ AllUsed(result.field.field.children, result.op.flux, TRUE)
        /\ AllUsed(result.field.bfield.children, result.op.flux, FALSE)
        /\ NoDuplicates(result.field.field.children)
        /\ NoDuplicates(result.field.bfield.children)

\* the flux with every exterior field component replaced by the mined
\* boundary expression (its component of that index when the boundary field
\* is an array), and every other node kept
RECURSIVE SubstituteExterior(_, _, _)
SubstituteExterior(flux, of_array, mined) ==
    IF flux.k = "FieldComponent" /\ ~flux.is_interior
    THEN IF of_array THEN mined.children[flux.index + 1] ELSE mined
    ELSE IF flux.k \in {"Sum", "Product"}
    THEN [flux EXCEPT !.children =
            [i \in 1..Len(flux.children) |->
                SubstituteExterior(flux.children[i], of_array, mined)]]
    ELSE flux

\* a flux as pymbolic's flattening of sums and products leaves it
RECURSIVE FlatForm(_)
FlatForm(e) ==
    IF e.k = "Sum"
    THEN flattened_sum([i \in 1..Len(e.children) |-> FlatForm(e.children[i])])
    ELSE IF e.k = "Product"
    THEN flattened_product(
            [i \in 1..Len(e.children) |-> FlatForm(e.children[i])])
    ELSE e

\* what the miner returns for the boundary field of the run
MinedBoundaryField ==
    Finder_rec(MaxBoundaryFluxEvaluableExpressionFinder(
                   IF is_obj_array(other.field) THEN other.field.children
                   ELSE <<other.field>>,
                   BoundaryPair(other.field, other.bfield, other.tag)),
               other.bfield).val

SubstitutedFlux ==
    FlatForm(SubstituteExterior(other.flux, is_obj_array(other.bfield),
                                MinedBoundaryField))

\* C22: the rewritten flux is the original flux with each exterior field
\* component replaced by the mined boundary expression (by index when the
\* boundary field is an array) and every other node as it was, sums and
\* products flattened
C22_OnlyExteriorSubstituted ==
    (pc = "rewritten" /\ error = NoError) =>
        IF result.k = "OperatorBinding"
        THEN result.op.flux = SubstitutedFlux
        ELSE tools_is_zero(SubstitutedFlux)

C22_Witness ==
    /\ IsRebuilt
    /\ is_obj_array(other.bfield)
    /\ other.bfield.children[2] = Field("w")
    /\ other.flux = FieldComponent(1, FALSE)
    /\ result.op.flux = FieldComponent(0, FALSE)
    /\ result.field.bfield.children = <<Field("w")>>

\* C23: when the flux with the boundary expression substituted is the
\* number 0 the rewriter returns 0 for the whole binding; otherwise it
\* returns a FluxOperator binding over a BoundaryPair
C23_DeadFluxDropped ==
    (pc = "rewritten" /\ error = NoError) =>
        IF tools_is_zero(SubstitutedFlux)
        THEN result = Constant(0)
        ELSE /\ result.k = "OperatorBinding"
             /\ result.op.k = "FluxOperator"
             /\ ~tools_is_zero(result.op.flux)
             /\ result.field.k = "BoundaryPair"
             /\ result.field.field.k = "ObjArray"
             /\ result.field.bfield.k = "ObjArray"

C23_Witness ==
    /\ pc = "rewritten"
    /\ error = NoError
    /\ other.bfield = Constant(0)
    /\ other.flux = FieldComponent(0, FALSE)
    /\ result = Constant(0)

(***************************************************************************)
(* FluxCollector and BoundOperatorCollector.  A collector instance is a    *)
(* record, with the op_class it was constructed with; a set of Python is a *)
(* set here.                                                               *)
(***************************************************************************)
\* isinstance(op, op_class), from the class statements
SubclassesOf(op_class) ==
    CASE op_class = "Operator" -> OperatorClasses
      [] op_class = "StatelessOperator" -> StatelessOperatorClasses
      [] op_class = "MassOperatorBase" ->
            {"MassOperator", "InverseMassOperator"}
      [] op_class = "DiffOperatorBase" -> DiffOperatorBaseClasses
      [] op_class = "FluxOperatorBase" -> FluxOperatorBaseClasses
      [] OTHER -> {op_class}

isinstance(op, op_class) == op.k \in SubclassesOf(op_class)

\* CollectorMixin.combine: set(flatten(values))
CollectorMixin_combine(values) == UNION {values[i] : i \in DOMAIN values}

RECURSIVE Collector_rec(_, _)
\* a slip: the operand of a collected binding is not searched
FluxCollector_map_operator_binding_no_descent(m, e) ==
    IF isinstance(e.op, "FluxOperatorBase") THEN {e}
    ELSE Collector_rec(m, e.field)

FluxCollector_map_operator_binding(m, e) ==
    (IF isinstance(e.op, "FluxOperatorBase") THEN {e} ELSE {})
        \cup Collector_rec(m, e.field)

BoundOperatorCollector_map_operator_binding(m, e) ==
    (IF isinstance(e.op, m.op_class) THEN {e} ELSE {})
        \cup Collector_rec(m, e.field)

CombineMapperMixin_map_boundary_pair(m, e) ==
    CollectorMixin_combine(<<Collector_rec(m, e.field),
                             Collector_rec(m, e.bfield)>>)

\* self.rec of a collector: the methods of the collector class, then those
\* of CollectorMixin (the empty set for constants, variables, normal
\* components, scalar parameters and operators), then the combining
\* map_sum and map_product of pymbolic's CombineMapper
Collector_rec(m, e) ==
    CASE e.k = "OperatorBinding" /\ m.cls = "FluxCollector" ->
            FluxCollector_map_operator_binding(m, e)
      [] e.k = "OperatorBinding" /\ m.cls = "BoundOperatorCollector" ->
            BoundOperatorCollector_map_operator_binding(m, e)
      [] e.k = "BoundaryPair" -> CombineMapperMixin_map_boundary_pair(m, e)
      [] e.k \in {"Sum", "Product"} ->
            CollectorMixin_combine(
                [i \in 1..Len(e.children) |-> Collector_rec(m, e.children[i])])
      [] OTHER -> {}

FluxCollector(e) == Collector_rec([cls |-> "FluxCollector"], e)

BoundOperatorCollector(op_class, e) ==
    Collector_rec([cls |-> "BoundOperatorCollector", op_class |-> op_class],
                  e)

CollectorOperators ==
    {MassOperator, DifferentiationOperator(0),
     FluxOperator(FieldComponent(0, TRUE)),
     LiftingFluxOperator(FieldComponent(0, TRUE))}

CollectorOpClasses ==
    {"Operator", "StatelessOperator", "MassOperatorBase", "DiffOperatorBase",
     "FluxOperatorBase", "MassOperator", "FluxOperator",
     "LiftingFluxOperator", "BoundarizeOperator"}

\* the trees of n nodes: bindings, sums and products of two, boundary pairs
RECURSIVE CollectorTrees(_)
CollectorTrees(n) ==
    IF n = 1 THEN {Field("u"), Constant(2)}
    ELSE {OperatorBinding(op, t) :
            op \in CollectorOperators, t \in CollectorTrees(n - 1)}
         \cup UNION {UNION {{Sum(<<a, b>>), Product(<<a, b>>),
                             BoundaryPair(a, b, TAG_ALL)} :
                                a \in CollectorTrees(j),
                                b \in CollectorTrees(n - 1 - j)}
                     : j \in 1..(n - 2)}

InitCollect ==
    /\ pc = "tree"
    /\ \E n \in 1..CollectorMaxSize : expr \in CollectorTrees(n)
    /\ \/ other = [cls |-> "FluxCollector"]
       \/ \E c \in CollectorOpClasses :
            other = [cls |-> "BoundOperatorCollector", op_class |-> c]
    /\ prev = expr
    /\ result = None
    /\ error = NoError

\* collector(expr)
Collect ==
    /\ pc = "tree"
    /\ result' = Collector_rec(other, expr)
    /\ pc' = "collected"
    /\ UNCHANGED <<expr, other, prev, error>>

NextCollect == Collect

SpecCollect == InitCollect /\ [][NextCollect]_vars

\* every node reachable from a tree, both sides of boundary pairs included
RECURSIVE ReachableFrom(_)
ReachableFrom(e) ==
    {e} \cup
    (IF e.k \in {"Sum", "Product"}
     THEN UNION {ReachableFrom(e.children[i]) : i \in 1..Len(e.children)}
     ELSE IF e.k = "OperatorBinding" THEN ReachableFrom(e.field)
     ELSE IF e.k = "BoundaryPair"
     THEN ReachableFrom(e.field) \cup ReachableFrom(e.bfield)
     ELSE {})

BindingsOfClasses(e, classes) ==
    {n \in ReachableFrom(e) : n.k = "OperatorBinding" /\ n.op.k \in classes}

\* C25: FluxCollector returns the set of the reachable bindings of
\* FluxOperator and LiftingFluxOperator, BoundOperatorCollector(op_class)
\* the set of the reachable bindings whose operator is of op_class or of a
\* class derived from it, and the tree is the one that was given
C25_CollectorsFindAllBindings ==
    pc = "collected" =>
        /\ other.cls = "FluxCollector" =>
              result = BindingsOfClasses(expr,
                          {"FluxOperator", "LiftingFluxOperator"})
        /\ other.cls = "BoundOperatorCollector" =>
              result = BindingsOfClasses(expr, SubclassesOf(other.op_class))
        /\ expr = prev

C25_Witness ==
    /\ pc = "collected"
    /\ other.cls = "FluxCollector"
    /\ expr.k = "OperatorBinding"
    /\ expr.op.k = "FluxOperator"
    /\ expr.field.k = "BoundaryPair"
    /\ expr.field.bfield.k = "OperatorBinding"
    /\ expr.field.bfield.op.k = "LiftingFluxOperator"
    /\ result = {expr, expr.field.bfield}

(***************************************************************************)
(* The common-subexpression cache of the passes (pymbolic's                *)
(* CSECachingMapperMixin, the first base of each of them).  caches[i] is   *)
(* the _cse_cache_dict of mapper instance i, with the list of the nodes    *)
(* that went through map_common_subexpression_uncached.  The trees are     *)
(* sums whose terms may be common subexpressions.                          *)
(***************************************************************************)
CommonSubexpression(child, prefix) ==
    [k |-> "CommonSubexpression", child |-> child, prefix |-> prefix]

IsCollector(m) == m.cls \in {"FluxCollector", "BoundOperatorCollector"}

EmptyCache == [ccd |-> EmptyDict, processed |-> <<>>]

RECURSIVE CachedRec(_, _, _, _)
RECURSIVE CachedRec_children(_, _, _, _, _)

\* IdentityMapper.map_common_subexpression for the four rewriting passes,
\* CombineMapper.map_common_subexpression for the two collectors
map_common_subexpression_uncached(caches, i, m, e) ==
    LET r == CachedRec(caches, i, m, e.child)
    IN  IF IsCollector(m) THEN r
        ELSE IF is_zero(r.val) THEN [r EXCEPT !.val = Constant(0)]
        ELSE [r EXCEPT !.val = CommonSubexpression(r.val, e.prefix)]

\* a slip: the dictionary is an attribute of the class, so every instance
\* uses the dictionary of the first
CSECachingMapperMixin_map_common_subexpression_shared(caches, i, m, e) ==
    LET ccd == caches[1].ccd
    IN  IF e \in DOMAIN ccd
        THEN [val |-> ccd[e], caches |-> caches]
        ELSE LET r == map_common_subexpression_uncached(caches, i, m, e)
             IN  [val |-> r.val,
                  caches |-> [r.caches EXCEPT
                                ![1].ccd = DictSet(@, e, r.val),
                                ![1].processed = Append(@, e)]]

CSECachingMapperMixin_map_common_subexpression(caches, i, m, e) ==
    LET ccd == caches[i].ccd
    IN  IF e \in DOMAIN ccd
        THEN [val |-> ccd[e], caches |-> caches]
        ELSE LET r == map_common_subexpression_uncached(caches, i, m, e)
             IN  [val |-> r.val,
                  caches |-> [r.caches EXCEPT
                                ![i].ccd = DictSet(@, e, r.val),
                                ![i].processed = Append(@, e)]]

CachedRec_children(caches, i, m, children, done) ==
    IF children = <<>> THEN [val |-> done, caches |-> caches]
    ELSE LET r == CachedRec(caches, i, m, Head(children))
         IN  CachedRec_children(r.caches, i, m, Tail(children),
                                Append(done, r.val))

\* self.rec of instance i: the children of a sum are mapped from left to
\* right; a subtree below which there is no common subexpression is mapped
\* as by Rec and Collector_rec
CachedRec(caches, i, m, e) ==
    CASE e.k = "CommonSubexpression" ->
            CSECachingMapperMixin_map_common_subexpression(caches, i, m, e)
      [] e.k = "Sum" ->
            LET r == CachedRec_children(caches, i, m, e.children, <<>>)
            IN  [r EXCEPT !.val = IF IsCollector(m)
                                  THEN CollectorMixin_combine(r.val)
                                  ELSE flattened_sum(r.val)]
      [] OTHER ->
            [val |-> IF IsCollector(m) THEN Collector_rec(m, e)
                     ELSE Rec(m, e),
             caches |-> caches]

CacheLeaves ==
    {Field("u"),
     Product(<<MassOperator, Field("u")>>),
     OperatorBinding(InverseMassOperator,
                     OperatorBinding(MassOperator, Field("u"))),
     OperatorBinding(FluxOperator(FieldComponent(0, FALSE)),
                     BoundaryPair(Field("u"), Field("w"), TAG_ALL)),
     OperatorBinding(FluxOperator(FieldComponent(0, FALSE)),
                     BoundaryPair(Field("u"), Constant(0), TAG_USER))}

CacheTerms ==
    CacheLeaves
    \cup {CommonSubexpression(x, "a") : x \in CacheLeaves}
    \cup {CommonSubexpression(
              Sum(<<CommonSubexpression(x, "a"), y>>), "b") :
            x \in CacheLeaves, y \in CacheLeaves}

CacheTrees == {Sum(<<s, t>>) : s \in CacheTerms, t \in CacheTerms}

CacheMappers ==
    {[cls |-> c] : c \in {"OperatorBinder", "InverseMassContractor",
                          "BCToFluxRewriter", "FluxCollector"}}
    \cup {[cls |-> "EmptyFluxKiller",
           discr |-> [nodes |-> [t \in BoundaryTags |-> n]]] :
            n \in 0..MaxBoundaryNodes}
    \cup {[cls |-> "BoundOperatorCollector", op_class |-> c] :
            c \in {"FluxOperatorBase", "MassOperator"}}

InitCache ==
    /\ pc = "mappers constructed"
    /\ expr \in CacheTrees
    /\ \E a \in CacheMappers, b \in CacheMappers :
          a.cls = b.cls /\ other = <<a, b>>
    /\ prev = <<EmptyCache, EmptyCache>>
    /\ result = None
    /\ error = NoError

\* mapper instance i is called on the tree
MapCached(i) ==
    /\ pc \in {"mappers constructed", "mapped once"}
    /\ LET r == CachedRec(prev, i, other[i], expr)
       IN  /\ result' = [inst |-> i, val |-> r.val]
           /\ prev' = r.caches
    /\ pc' = IF pc = "mappers constructed" THEN "mapped once"
             ELSE "mapped twice"
    /\ UNCHANGED <<expr, other, error>>

NextCache == \E i \in 1..2 : MapCached(i)

SpecCache == InitCache /\ [][NextCache]_vars

\* the traversal that takes every common subexpression through the
\* non-cached entry point
RECURSIVE WithoutCache(_, _)
WithoutCache(m, e) ==
    CASE e.k = "CommonSubexpression" ->
            LET r == WithoutCache(m, e.child)
            IN  IF IsCollector(m) THEN r
                ELSE IF is_zero(r) THEN Constant(0)
                ELSE CommonSubexpression(r, e.prefix)
      [] e.k = "Sum" ->
            LET vals == [j \in 1..Len(e.children) |->
                            WithoutCache(m, e.children[j])]
            IN  IF IsCollector(m) THEN CollectorMixin_combine(vals)
                ELSE flattened_sum(vals)
      [] OTHER -> IF IsCollector(m) THEN Collector_rec(m, e) ELSE Rec(m, e)

\* C24: what a mapper instance returns through its cache is what the
\* non-cached traversal returns; an instance takes a common subexpression
\* through the non-cached entry point once; and the cache of an instance
\* holds the results of that instance only
C24_CachedEqualsUncached ==
    pc \in {"mapped once", "mapped twice"} =>
        /\ result.val = WithoutCache(other[result.inst], expr)
        /\ \A i \in 1..2 :
              /\ NoDuplicates(prev[i].processed)
              /\ \A c \in DOMAIN prev[i].ccd :
                    prev[i].ccd[c] = WithoutCache(other[i], c)

C24_Witness ==
    /\ pc = "mapped twice"
    /\ result.inst = 2
    /\ other[1].cls = "EmptyFluxKiller"
    /\ other[1].discr # other[2].discr
    /\ \E c \in DOMAIN prev[1].ccd :
          c \in DOMAIN prev[2].ccd /\ prev[1].ccd[c] # prev[2].ccd[c]
    /\ Len(prev[2].processed) = 2

(***************************************************************************)
(* IndexListRegistry of hedge/tools/indexing.py.  The registry is a        *)
(* record of its attributes; a call of register is given the identifier    *)
(* and the index list its generator returns when called.                   *)
(***************************************************************************)
IndexListRegistry(debug) ==
    [index_lists |-> <<>>, il_id_to_number |-> EmptyDict,
     il_to_number |-> EmptyDict, debug |-> debug]

TwoListsError ==
    [k |-> "AssertionError",
     msg |-> "identifier %s used for two different index lists"]

\* a slip: the list is appended without a look at il_to_number
IndexListRegistry_register_always_new(self, identifier, il) ==
    IF identifier \in DOMAIN self.il_id_to_number
    THEN LET number == self.il_id_to_number[identifier]
         IN  IF self.debug /\ il # self.index_lists[number + 1]
             THEN [self |-> self, val |-> None, err |-> TwoListsError,
                   generated |-> TRUE]
             ELSE [self |-> self, val |-> number, err |-> NoError,
                   generated |-> self.debug]
    ELSE LET nbr == Len(self.index_lists)
         IN  [self |-> [self EXCEPT
                          !.index_lists = Append(@, il),
                          !.il_id_to_number = DictSet(@, identifier, nbr),
                          !.il_to_number = DictSet(@, il, nbr)],
              val |-> nbr, err |-> NoError, generated |-> TRUE]

\* register(identifier, generator): the registry afterwards, the number
\* returned, the exception raised and whether generator() was called
IndexListRegistry_register(self, identifier, il) ==
    IF identifier \in DOMAIN self.il_id_to_number
    THEN LET number == self.il_id_to_number[identifier]
         IN  IF self.debug /\ il # self.index_lists[number + 1]
             THEN [self |-> self, val |-> None, err |-> TwoListsError,
                   generated |-> TRUE]
             ELSE [self |-> self, val |-> number, err |-> NoError,
                   generated |-> self.debug]
    ELSE IF il \in DOMAIN self.il_to_number
    THEN LET nbr == self.il_to_number[il]
         IN  [self |-> [self EXCEPT
                          !.il_id_to_number = DictSet(@, identifier, nbr)],
              val |-> nbr, err |-> NoError, generated |-> TRUE]
    ELSE LET nbr == Len(self.index_lists)
         IN  [self |-> [self EXCEPT
                          !.index_lists = Append(@, il),
                          !.il_id_to_number = DictSet(@, identifier, nbr),
                          !.il_to_number = DictSet(@, il, nbr)],
              val |-> nbr, err |-> NoError, generated |-> TRUE]

RegistryIdentifiers == {"face 0", "face 1", "face 2"}
RegistryIndexLists == {<<0, 1>>, <<1, 0>>, <<0, 2>>}

\* expr is the registry, other the arguments of the last call, prev what is
\* remembered for the properties: the registry before the last call, the
\* number and the list of the first registration of each identifier
InitRegistry ==
    /\ pc = "registry constructed"
    /\ \E debug \in BOOLEAN : expr = IndexListRegistry(debug)
    /\ other = None
    /\ result = None
    /\ error = NoError
    /\ prev = [before |-> None, first |-> EmptyDict,
               first_list |-> EmptyDict, generated |-> FALSE, calls |-> 0]

Register ==
    /\ prev.calls < MaxRegistrations
    /\ \E identifier \in RegistryIdentifiers, il \in RegistryIndexLists :
          LET r == IndexListRegistry_register(expr, identifier, il)
              is_first == identifier \notin DOMAIN prev.first
                            /\ r.err = NoError
          IN  /\ expr' = r.self
              /\ result' = r.val
              /\ error' = r.err
              /\ other' = [identifier |-> identifier, il |-> il]
              /\ prev' = [before |-> expr,
                          first |-> IF is_first
                                    THEN DictSet(prev.first, identifier,
                                                 r.val)
                                    ELSE prev.first,
                          first_list |-> IF is_first
                                         THEN DictSet(prev.first_list,
                                                      identifier, il)
                                         ELSE prev.first_list,
                          generated |-> r.generated,
                          calls |-> prev.calls + 1]
    /\ pc' = "registered"

NextRegistry == Register

SpecRegistry == InitRegistry /\ [][NextRegistry]_vars

WasKnown == other.identifier \in DOMAIN prev.before.il_id_to_number

IndexGroupKillerSubstMap(kill_set) == [kill_set |-> kill_set]

\* __call__ reads kill_set, the variable of the enclosing function, and not
\* self.kill_set
IndexGroupKillerSubstMap_call(self, kill_set, e) ==
    IF e \in kill_set THEN Constant(0) ELSE None

\* the kill_set built in pass i of the loop (i from 0)
KillSetOfPass(index_groups, i) ==
    UNION {{index_groups[j + 1][n] : n \in 1..Len(index_groups[j + 1])} :
            j \in {jj \in 0..(Len(index_groups) - 1) : jj # i}}

\* the killers as the returned list applies them: by then the loop has
\* ended and kill_set is the set built in its last pass
split_killers(index_groups, e) ==
    LET killers == [i \in 1..Len(index_groups) |->
                        IndexGroupKillerSubstMap(
                            KillSetOfPass(index_groups, i - 1))]
        kill_set == KillSetOfPass(index_groups, Len(index_groups) - 1)
    IN  [i \in 1..Len(index_groups) |->
            IndexGroupKillerSubstMap_call(killers[i], kill_set, e)]

SplitExpressions == {Field("u"), Field("v"), Field("w")}

\* the lists of the expressions a numbering of the groups puts in each
RECURSIVE ListOfSet(_)
ListOfSet(s) ==
    IF s = {} THEN <<>>
    ELSE LET x == CHOOSE x \in s : TRUE IN <<x>> \o ListOfSet(s \ {x})

InitSplit ==
    /\ pc = "index groups"
    /\ \E n \in 2..MaxIndexGroups :
          \E g \in [SplitExpressions -> 0..n] :
              other = [i \in 1..n |->
                          ListOfSet({x \in SplitExpressions : g[x] = i})]
    /\ expr = None
    /\ result = None
    /\ prev = None
    /\ error = NoError

\* split_optemplate_for_multirate(state_vector, op_template, index_groups)
Split ==
    /\ pc = "index groups"
    /\ result' = [x \in SplitExpressions |-> split_killers(other, x)]
    /\ pc' = "split"
    /\ UNCHANGED <<expr, other, prev, error>>

NextSplit == Split

SpecSplit == InitSplit /\ [][NextSplit]_vars

InGroup(x, i) == \E n \in 1..Len(other[i]) : other[i][n] = x

\* C27: the killer of group i returns 0 for the expressions of the other
\* groups and leaves every other expression, those of group i among them
C27_KillerSparesOwnGroup ==
    pc = "split" =>
        \A x \in SplitExpressions, i \in 1..Len(other) :
            result[x][i] =
                IF \E j \in 1..Len(other) : j # i /\ InGroup(x, j)
                THEN Constant(0)
                ELSE None

(***************************************************************************)
(* InverseMassContractor applied to its own output, on the stacks of       *)
(* bindings of SpecNested.                                                 *)
(***************************************************************************)
\* InverseMassContractor()(InverseMassContractor()(expr)); prev keeps the
\* result of the first application
ContractNestedAgain ==
    /\ pc = "contracted stack"
    /\ prev' = result
    /\ result' = InverseMassContractor(result)
    /\ pc' = "contracted stack twice"
    /\ UNCHANGED <<expr, other, error>>

NextNestedTwice == ContractNested \/ ContractNestedAgain

SpecNestedTwice == InitNested /\ [][NextNestedTwice]_vars

\* C28: contracting a contracted tree returns it unchanged
C28_ContractorIdempotent ==
    pc = "contracted stack twice" => result = prev

(***************************************************************************)
(* The registration methods of the rewriter's miner, called in any order   *)
(* on a miner constructed over a volume expression list.                   *)
(***************************************************************************)
MinerVolLists ==
    {<<Field("u")>>, <<Field("u"), Field("v")>>, <<Field("u"), Field("u")>>}

MinerExpressions == {Field("u"), Field("v"), Field("w"), Field("x")}

InitMiner ==
    /\ pc = "miner constructed"
    /\ \E vol_expr_list \in MinerVolLists :
          expr = MaxBoundaryFluxEvaluableExpressionFinder(vol_expr_list,
                    BoundaryPair(ObjArray(vol_expr_list), Constant(0),
                                 TAG_ALL))
    /\ other = None
    /\ result = None
    /\ prev = None
    /\ error = NoError

\* mbfeef.register_volume_expr(e)
RegisterVolumeExpr ==
    /\ \E e \in MinerExpressions :
          LET r == register_volume_expr(expr, e)
          IN  /\ expr' = r.self
              /\ result' = r.val
              /\ other' = [method |-> "register_volume_expr", e |-> e]
    /\ prev' = expr
    /\ pc' = "registered"
    /\ UNCHANGED error

\* mbfeef.register_boundary_expr(e)
RegisterBoundaryExpr ==
    /\ \E e \in MinerExpressions :
          LET r == register_boundary_expr(expr, e)
          IN  /\ expr' = r.self
              /\ result' = r.val
              /\ other' = [method |-> "register_boundary_expr", e |-> e]
    /\ prev' = expr
    /\ pc' = "registered"
    /\ UNCHANGED error

NextMiner == RegisterVolumeExpr \/ RegisterBoundaryExpr

SpecMiner == InitMiner /\ [][NextMiner]_vars

ListRegisteredIn(self) ==
    IF other.method = "register_volume_expr" THEN self.vol_expr_list
    ELSE self.bdry_expr_list

DictRegisteredIn(self) ==
    IF other.method = "register_volume_expr" THEN self.vol_expr_to_idx
    ELSE self.bdry_expr_to_idx

\* C29: the index returned for an expression is a position of the list at
\* which the list holds that expression, and registering a registered
\* expression returns its index and leaves the list
C29_IndexNamesExpression ==
    pc = "registered" =>
        /\ result \in 0..(Len(ListRegisteredIn(expr)) - 1)
        /\ ListRegisteredIn(expr)[result + 1] = other.e
        /\ other.e \in DOMAIN DictRegisteredIn(prev) =>
              /\ result = DictRegisteredIn(prev)[other.e]
              /\ expr = prev

\* the components of the volume field of the run, as the rewriter lists them
OriginalVolumeList ==
    IF is_obj_array(other.field) THEN other.field.children
    ELSE <<other.field>>

\* C30: the volume list of the rebuilt pair starts with the components of
\* the original volume field in their order, so that an interior field
\* component of the original flux is in the rewritten flux with the same
\* index and names the same volume expression
C30_VolumePrefixKept ==
    IsRebuilt =>
        /\ Len(result.field.field.children) >= Len(OriginalVolumeList)
        /\ \A i \in 1..Len(OriginalVolumeList) :
              result.field.field.children[i] = OriginalVolumeList[i]
        /\ \A c \in FieldComponentsOf(other.flux) :
              c.is_interior => c \in FieldComponentsOf(result.op.flux)

C30_Witness ==
    /\ IsRebuilt
    /\ Len(OriginalVolumeList) = 2
    /\ Len(result.field.field.children) = 3
    /\ FieldComponent(0, TRUE) \in FieldComponentsOf(other.flux)
    /\ FieldComponent(2, TRUE) \in FieldComponentsOf(result.op.flux)

=============================================================================
